---- MODULE Spec2Model ----
(***************************************************************************)
(* Verification model of the AUTOTRADER signal engine                      *)
(* (analise_sinal.py, calculadora.py, calc.py, worker_entrada.py).         *)
(*                                                                         *)
(* Python floats are modelled as binary floating-point numbers <<m, e>>    *)
(* (value m * 2^e) with a normalised significand of Precision bits and     *)
(* round-to-nearest-even after every arithmetic operation, as IEEE-754     *)
(* does.  The significand is narrower than the 53 bits of a Python float   *)
(* so that products fit the model checker's integers; the exponent is      *)
(* unbounded.  The input values below are chosen so that the model takes   *)
(* the same filter decisions as the Python code does on them.              *)
(***************************************************************************)
EXTENDS Integers, Sequences, FiniteSets, TLC

VARIABLES
    op,          \* the function of the engine that was called, or "idle"
    args,        \* the arguments it was called with
    ret,         \* what it returned
    now,         \* the wall clock read by now_brt()
    pc,          \* where the run of worker_entrada.gerar_sinais stands
    coin_i,      \* index in COINS of the coin the loop is at
    swing,       \* gerar_sinais: the list swing
    posicional,  \* gerar_sinais: the list posicional
    logs,        \* the lines written by log(), as <<coin, modo, message>>
    payload,     \* what gerar_sinais returned, or "None" before it has
    order_i,     \* get_ohlcv: index in order of the exchange the loop is at
    contacted,   \* get_ohlcv: the exchanges whose fetch_ohlcv was called, in call order
    errors,      \* get_ohlcv: the list errors
    files,       \* the files entrada.json and its two temporaries
    w_pc,        \* where worker_entrada.main stands
    w_payload,   \* worker_entrada.main: payload
    p_pc,        \* where price_stream.main_loop stands
    p_payload,   \* price_stream.main_loop: payload
    observed     \* what the panel last read from entrada.json

vars == <<op, args, ret, now, pc, coin_i, swing, posicional, logs, payload,
          order_i, contacted, errors,
          files, w_pc, w_payload, p_pc, p_payload, observed>>

engineVars == <<op, args, ret>>

batchVars == <<pc, coin_i, swing, posicional, logs, payload>>

fetchVars == <<order_i, contacted, errors>>

fileVars == <<files, w_pc, w_payload, p_pc, p_payload, observed>>

\* ------------------------------------------------------------------------
\* Floating point
\* ------------------------------------------------------------------------

\* Significand width of the modelled float type.
Precision == 14

Pow2(k) == 2 ^ k

Abs(n) == IF n < 0 THEN -n ELSE n

Sgn(n) == IF n < 0 THEN -1 ELSE IF n = 0 THEN 0 ELSE 1

FZero == <<0, 0>>

\* A non-finite value (NaN or infinity) as the indicator libraries return it.
NaN == <<0, 1>>

IsFinite(x) == x # NaN

\* num / den rounded to the nearest integer, ties to even (num >= 0, den > 0).
RoundHalfEven(num, den) ==
    LET q == num \div den
        r == num % den
    IN  IF 2 * r > den \/ (2 * r = den /\ q % 2 = 1) THEN q + 1 ELSE q

RECURSIVE FNormalize(_, _, _)
\* The float nearest to (num / den) * 2^e, for num > 0 and den > 0.
FNormalize(num, den, e) ==
    IF num >= den * Pow2(Precision) THEN FNormalize(num, 2 * den, e + 1)
    ELSE IF num < den * Pow2(Precision - 1) THEN FNormalize(2 * num, den, e - 1)
    ELSE LET q == RoundHalfEven(num, den)
         IN  IF q = Pow2(Precision) THEN <<Pow2(Precision - 1), e + 1>> ELSE <<q, e>>

FSigned(s, x) == <<s * x[1], x[2]>>

\* The float literal n/d (float("1.2") is F(12, 10)).
F(n, d) == IF n = 0 THEN FZero ELSE FSigned(Sgn(n), FNormalize(Abs(n), d, 0))

FNeg(a) == <<-a[1], a[2]>>

FMul(a, b) ==
    IF a[1] = 0 \/ b[1] = 0 THEN FZero
    ELSE FSigned(Sgn(a[1]) * Sgn(b[1]), FNormalize(Abs(a[1]) * Abs(b[1]), 1, a[2] + b[2]))

\* a / b for b # 0 (Python raises ZeroDivisionError for b = 0: see the callers).
FDiv(a, b) ==
    IF a[1] = 0 THEN FZero
    ELSE FSigned(Sgn(a[1]) * Sgn(b[1]), FNormalize(Abs(a[1]), Abs(b[1]), a[2] - b[2]))

FAdd(a, b) ==
    IF a[1] = 0 THEN b
    ELSE IF b[1] = 0 THEN a
    ELSE LET hi == IF a[2] >= b[2] THEN a ELSE b
             lo == IF a[2] >= b[2] THEN b ELSE a
             d  == hi[2] - lo[2]
         IN  IF d > Precision + 1 THEN hi
             ELSE LET s == hi[1] * Pow2(d) + lo[1]
                  IN  IF s = 0 THEN FZero
                      ELSE FSigned(Sgn(s), FNormalize(Abs(s), 1, lo[2]))

FSub(a, b) == FAdd(a, FNeg(b))

FLt(a, b) ==
    IF a[1] = 0 THEN b[1] > 0
    ELSE IF b[1] = 0 THEN a[1] < 0
    ELSE IF Sgn(a[1]) # Sgn(b[1]) THEN a[1] < 0
    ELSE IF a[1] > 0 THEN a[2] < b[2] \/ (a[2] = b[2] /\ a[1] < b[1])
    ELSE a[2] > b[2] \/ (a[2] = b[2] /\ a[1] < b[1])

FGt(a, b) == FLt(b, a)

FLe(a, b) == ~FLt(b, a)

FGe(a, b) == ~FLt(a, b)

\* Python's max(a, b) and min(a, b): the first argument unless the second is
\* strictly larger (smaller).
FMax(a, b) == IF FGt(b, a) THEN b ELSE a

FMin(a, b) == IF FLt(b, a) THEN b ELSE a

\* Python's round(x, nd): the exact value rounded half-even to nd decimals,
\* then the nearest float.
FRound(x, nd) ==
    IF x[1] = 0 THEN FZero
    ELSE LET scale == 10 ^ nd
             k == IF x[2] >= 0 THEN Abs(x[1]) * Pow2(x[2]) * scale
                  ELSE IF -x[2] >= 26 THEN 0
                  ELSE RoundHalfEven(Abs(x[1]) * scale, Pow2(-x[2]))
         IN  IF k = 0 THEN FZero ELSE FSigned(Sgn(x[1]), F(k, scale))

\* ------------------------------------------------------------------------
\* config.py
\* ------------------------------------------------------------------------

PRICE_DECIMALS == 3

PCT_DECIMALS == 2

\* ------------------------------------------------------------------------
\* analise_sinal.py
\* ------------------------------------------------------------------------

MIN_GANHO == F(30, 10)

MIN_ASSERT == F(65, 1)

MAX_GANHO == F(30, 1)

MIN_ASSERT_CLAMP == F(60, 1)

MAX_ASSERT_CLAMP == F(90, 1)

\* A_sinal with >= for >: equal EMAs would give LONG.
A_sinal_ge(ema_fast, ema_slow) ==
    IF FGe(ema_fast, ema_slow) THEN "LONG" ELSE "SHORT"

\* Direction: LONG if the fast EMA is above the slow one, otherwise SHORT.
A_sinal(ema_fast, ema_slow) ==
    IF FGt(ema_fast, ema_slow) THEN "LONG" ELSE "SHORT"

\* ATR as a percentage of the price, clamped.
A_atr_pct(atr, preco) ==
    LET atr_pct == IF FGt(preco, FZero) THEN FMul(FDiv(atr, preco), F(100, 1)) ELSE FZero
    IN  FMax(F(5, 10), FMin(atr_pct, F(15, 1)))

A_mult(modo) == IF modo = "swing" THEN F(12, 10) ELSE F(2, 1)

\* A_base_assert with the two modes' bases exchanged.
A_base_assert_swapped(modo) == IF modo = "swing" THEN F(72, 1) ELSE F(68, 1)

A_base_assert(modo) == IF modo = "swing" THEN F(68, 1) ELSE F(72, 1)

A_ganho_pct_raw(atr_pct, mult) ==
    FMax(MIN_GANHO, FMin(FMul(atr_pct, mult), MAX_GANHO))

\* A_alvo with the two directions' signs exchanged.
A_alvo_swapped(sinal, preco, ganho_pct_raw) ==
    IF sinal = "LONG"
    THEN FMul(preco, FSub(F(1, 1), FDiv(ganho_pct_raw, F(100, 1))))
    ELSE FMul(preco, FAdd(F(1, 1), FDiv(ganho_pct_raw, F(100, 1))))

A_alvo(sinal, preco, ganho_pct_raw) ==
    IF sinal = "LONG"
    THEN FMul(preco, FAdd(F(1, 1), FDiv(ganho_pct_raw, F(100, 1))))
    ELSE FMul(preco, FSub(F(1, 1), FDiv(ganho_pct_raw, F(100, 1))))

\* Python raises ZeroDivisionError here for preco = 0: analisar_sinal below
\* returns "raise" in that case and does not use this value.
A_ganho_pct_real(sinal, alvo, preco) ==
    IF sinal = "LONG"
    THEN FMul(FDiv(FSub(alvo, preco), preco), F(100, 1))
    ELSE FMul(FDiv(FSub(preco, alvo), preco), F(100, 1))

A_adx_norm(adx) ==
    FMax(FZero, FMin(F(1, 1), FDiv(FSub(adx, F(10, 1)), F(40, 1))))

\* A_align_score with <= for <: a SHORT at equal EMAs would count as aligned.
A_align_score_nonstrict(sinal, ema_fast, ema_slow) ==
    LET alinhado == \/ (sinal = "LONG" /\ FGt(ema_fast, ema_slow))
                    \/ (sinal = "SHORT" /\ FLe(ema_fast, ema_slow))
    IN  IF alinhado THEN F(1, 1) ELSE FZero

A_align_score(sinal, ema_fast, ema_slow) ==
    LET alinhado == \/ (sinal = "LONG" /\ FGt(ema_fast, ema_slow))
                    \/ (sinal = "SHORT" /\ FLt(ema_fast, ema_slow))
    IN  IF alinhado THEN F(1, 1) ELSE FZero

\* A_assert_pct without the final limits.
A_assert_pct_unclamped(base_assert, adx_norm, align_score) ==
    FAdd(FAdd(base_assert, FMul(F(20, 1), adx_norm)), FMul(F(10, 1), align_score))

A_assert_pct(base_assert, adx_norm, align_score) ==
    LET assert_pct == FAdd(FAdd(base_assert, FMul(F(20, 1), adx_norm)),
                           FMul(F(10, 1), align_score))
    IN  FMax(MIN_ASSERT_CLAMP, FMin(MAX_ASSERT_CLAMP, assert_pct))

\* A_filtrado with "and" for "or".
A_filtrado_and(ganho_pct_real, assert_pct) ==
    FLt(ganho_pct_real, MIN_GANHO) /\ FLt(assert_pct, MIN_ASSERT)

\* The minimum filter applied before publishing.
A_filtrado(ganho_pct_real, assert_pct) ==
    FLt(ganho_pct_real, MIN_GANHO) \/ FLt(assert_pct, MIN_ASSERT)

\* The result of analisar_sinal: kind is "raise" (ZeroDivisionError), "None"
\* (filtered out) or "dict" (the published signal, in value); frame holds the
\* function's local variables when it returns.
analisar_sinal(coin, modo, indicadores) ==
    LET preco == indicadores.preco
        ema_fast == indicadores.ema_fast
        ema_slow == indicadores.ema_slow
        atr == indicadores.atr
        adx == indicadores.adx
        sinal == A_sinal(ema_fast, ema_slow)
        atr_pct == A_atr_pct(atr, preco)
        ganho_pct_raw == A_ganho_pct_raw(atr_pct, A_mult(modo))
        alvo == A_alvo(sinal, preco, ganho_pct_raw)
        ganho_pct_real == A_ganho_pct_real(sinal, alvo, preco)
        adx_norm == A_adx_norm(adx)
        align_score == A_align_score(sinal, ema_fast, ema_slow)
        assert_pct == A_assert_pct(A_base_assert(modo), adx_norm, align_score)
    IN  IF preco = FZero
        THEN [kind |-> "raise",
              frame |-> [sinal |-> sinal, atr_pct |-> atr_pct,
                         ganho_pct_raw |-> ganho_pct_raw, alvo |-> alvo]]
        ELSE LET frame == [sinal |-> sinal, atr_pct |-> atr_pct,
                           ganho_pct_raw |-> ganho_pct_raw, alvo |-> alvo,
                           ganho_pct_real |-> ganho_pct_real, adx_norm |-> adx_norm,
                           align_score |-> align_score, assert_pct |-> assert_pct]
             IN  IF A_filtrado(ganho_pct_real, assert_pct)
                 THEN [kind |-> "None", frame |-> frame]
                 ELSE [kind |-> "dict", frame |-> frame,
                       value |-> [sinal |-> sinal,
                                  alvo |-> FRound(alvo, PRICE_DECIMALS),
                                  ganho_pct |-> FRound(ganho_pct_real, PCT_DECIMALS),
                                  assert_pct |-> FRound(assert_pct, PCT_DECIMALS)]]

\* ------------------------------------------------------------------------
\* calculadora.py
\* ------------------------------------------------------------------------

Max3(a, b, c) == IF a >= b /\ a >= c THEN a ELSE IF b >= c THEN b ELSE c

\* calcular_indicadores with <= for < in the length check.
calcular_indicadores_le(df, janela_ema_rapida, janela_ema_lenta, janela_atr, janela_adx) ==
    IF df.shape0 <= Max3(janela_ema_lenta, janela_atr, janela_adx) + 5
    THEN [kind |-> "None", log |-> "Poucos candles"]
    ELSE LET valores == <<df.close, df.ema_fast, df.ema_slow, df.atr, df.adx>>
         IN  IF ~(\A i \in 1..5 : IsFinite(valores[i]))
             THEN [kind |-> "None", log |-> "valores nao finitos"]
             ELSE [kind |-> "dict", log |-> "",
                   value |-> [preco |-> df.close, ema_fast |-> df.ema_fast,
                              ema_slow |-> df.ema_slow, atr |-> df.atr,
                              adx |-> df.adx]]

\* calcular_indicadores with the ADX left out of the finiteness check.
calcular_indicadores_adx_unchecked(df, janela_ema_rapida, janela_ema_lenta, janela_atr, janela_adx) ==
    IF df.shape0 < Max3(janela_ema_lenta, janela_atr, janela_adx) + 5
    THEN [kind |-> "None", log |-> "Poucos candles"]
    ELSE LET valores == <<df.close, df.ema_fast, df.ema_slow, df.atr>>
         IN  IF ~(\A i \in 1..4 : IsFinite(valores[i]))
             THEN [kind |-> "None", log |-> "valores nao finitos"]
             ELSE [kind |-> "dict", log |-> "",
                   value |-> [preco |-> df.close, ema_fast |-> df.ema_fast,
                              ema_slow |-> df.ema_slow, atr |-> df.atr,
                              adx |-> df.adx]]

\* df stands for the candle DataFrame: shape0 is its number of rows, and
\* close, ema_fast, ema_slow, atr, adx are the last-bar values the indicator
\* library (ta) computes from it, finite or not.
calcular_indicadores(df, janela_ema_rapida, janela_ema_lenta, janela_atr, janela_adx) ==
    IF df.shape0 < Max3(janela_ema_lenta, janela_atr, janela_adx) + 5
    THEN [kind |-> "None", log |-> "Poucos candles"]
    ELSE LET valores == <<df.close, df.ema_fast, df.ema_slow, df.atr, df.adx>>
         IN  IF ~(\A i \in 1..5 : IsFinite(valores[i]))
             THEN [kind |-> "None", log |-> "valores nao finitos"]
             ELSE [kind |-> "dict", log |-> "",
                   value |-> [preco |-> df.close, ema_fast |-> df.ema_fast,
                              ema_slow |-> df.ema_slow, atr |-> df.atr,
                              adx |-> df.adx]]

\* ------------------------------------------------------------------------
\* worker_entrada.py
\* ------------------------------------------------------------------------

W_MIN_GANHO == F(30, 10)

W_MIN_ASSERT == F(65, 1)

\* The minimum number of candles calcular_sinal_para_df asks for.
W_MIN_CANDLES == 60

W_sinal(last_ema_fast, last_ema_slow) ==
    IF FGt(last_ema_fast, last_ema_slow) THEN "LONG" ELSE "SHORT"

\* Python raises ZeroDivisionError here for last_close = 0:
\* calcular_sinal_para_df below returns "raise" in that case.
W_atr_pct(last_atr, last_close) ==
    FMax(F(5, 10), FMin(FMul(FDiv(last_atr, last_close), F(100, 1)), F(15, 1)))

W_mult(modo) == IF modo = "swing" THEN F(12, 10) ELSE F(2, 1)

W_ganho_pct_raw(atr_pct, mult) ==
    FMax(W_MIN_GANHO, FMin(FMul(atr_pct, mult), F(30, 1)))

W_alvo(sinal, last_close, ganho_pct_raw) ==
    IF sinal = "LONG"
    THEN FMul(last_close, FAdd(F(1, 1), FDiv(ganho_pct_raw, F(100, 1))))
    ELSE FMul(last_close, FSub(F(1, 1), FDiv(ganho_pct_raw, F(100, 1))))

W_ganho_pct_real(sinal, alvo, last_close) ==
    IF sinal = "LONG"
    THEN FMul(FDiv(FSub(alvo, last_close), last_close), F(100, 1))
    ELSE FMul(FDiv(FSub(last_close, alvo), last_close), F(100, 1))

W_adx_norm(last_adx) ==
    FMax(FZero, FMin(F(1, 1), FDiv(FSub(last_adx, F(10, 1)), F(40, 1))))

W_align_score(sinal, last_ema_fast, last_ema_slow) ==
    LET alinhado == \/ (sinal = "LONG" /\ FGt(last_ema_fast, last_ema_slow))
                    \/ (sinal = "SHORT" /\ FLt(last_ema_fast, last_ema_slow))
    IN  IF alinhado THEN F(1, 1) ELSE FZero

\* Base 55, up to 20 from the ADX, 10 if aligned, clamped to 60..90.
W_assert_pct(adx_norm, align_score) ==
    LET assert_pct == FAdd(FAdd(F(55, 1), FMul(F(20, 1), adx_norm)),
                           FMul(F(10, 1), align_score))
    IN  FMax(F(60, 1), FMin(F(90, 1), assert_pct))

\* W_filtrado without the confidence check.
W_filtrado_gain_only(ganho_pct_real, assert_pct) ==
    FLt(ganho_pct_real, W_MIN_GANHO)

W_filtrado(ganho_pct_real, assert_pct) ==
    FLt(ganho_pct_real, W_MIN_GANHO) \/ FLt(assert_pct, W_MIN_ASSERT)

\* The result of calcular_sinal_para_df at clock reading ts: kind is "raise"
\* (ZeroDivisionError), "None" (skipped or filtered, log says which) or
\* "SinalEntrada" (the published signal, in value).
calcular_sinal_para_df(coin, df, modo, ts) ==
    LET last_close == df.close
        last_ema_fast == df.ema_fast
        last_ema_slow == df.ema_slow
        last_atr == df.atr
        last_adx == df.adx
        sinal == W_sinal(last_ema_fast, last_ema_slow)
        atr_pct == W_atr_pct(last_atr, last_close)
        ganho_pct_raw == W_ganho_pct_raw(atr_pct, W_mult(modo))
        alvo == W_alvo(sinal, last_close, ganho_pct_raw)
        ganho_pct_real == W_ganho_pct_real(sinal, alvo, last_close)
        adx_norm == W_adx_norm(last_adx)
        align_score == W_align_score(sinal, last_ema_fast, last_ema_slow)
        assert_pct == W_assert_pct(adx_norm, align_score)
    IN  IF df.shape0 < W_MIN_CANDLES
        THEN [kind |-> "None", log |-> "poucos candles"]
        ELSE IF ~(\A x \in {last_close, last_ema_fast, last_ema_slow, last_atr, last_adx} :
                    IsFinite(x))
        THEN [kind |-> "None", log |-> "valores nao finitos"]
        ELSE IF last_close = FZero
        THEN [kind |-> "raise", log |-> "", frame |-> [sinal |-> sinal]]
        ELSE LET frame == [sinal |-> sinal, atr_pct |-> atr_pct,
                           ganho_pct_raw |-> ganho_pct_raw, alvo |-> alvo,
                           ganho_pct_real |-> ganho_pct_real, adx_norm |-> adx_norm,
                           align_score |-> align_score, assert_pct |-> assert_pct]
             IN  IF W_filtrado(ganho_pct_real, assert_pct)
                 THEN [kind |-> "None", log |-> "filtrado", frame |-> frame]
                 ELSE [kind |-> "SinalEntrada", log |-> "", frame |-> frame,
                       value |-> [par |-> coin, sinal |-> sinal,
                                  preco |-> FRound(last_close, PRICE_DECIMALS),
                                  alvo |-> FRound(alvo, PRICE_DECIMALS),
                                  ganho_pct |-> FRound(ganho_pct_real, PCT_DECIMALS),
                                  assert_pct |-> FRound(assert_pct, PCT_DECIMALS),
                                  data |-> ts, hora |-> ts]]

\* ------------------------------------------------------------------------
\* calc.py
\* ------------------------------------------------------------------------

ADX_MIN == F(20, 1)

MIN_EXPECTED_PROFIT_PCT == F(30, 10)

MIN_ASSERTIVIDADE == F(65, 1)

\* filtros_direcao with >= and <= for > and < on the EMAs.
filtros_direcao_nonstrict(row) ==
    IF FLt(row.adx, ADX_MIN) THEN "NAO_ENTRAR"
    ELSE IF FGe(row.ema_fast, row.ema_slow) /\ FGt(row.pdi, row.mdi) THEN "LONG"
    ELSE IF FLe(row.ema_fast, row.ema_slow) /\ FLt(row.pdi, row.mdi) THEN "SHORT"
    ELSE "NAO_ENTRAR"

\* filtros_direcao without the ADX minimum.
filtros_direcao_no_adx(row) ==
    IF FGt(row.ema_fast, row.ema_slow) /\ FGt(row.pdi, row.mdi) THEN "LONG"
    ELSE IF FLt(row.ema_fast, row.ema_slow) /\ FLt(row.pdi, row.mdi) THEN "SHORT"
    ELSE "NAO_ENTRAR"

\* row.pdi and row.mdi are the columns "+di" and "-di".
filtros_direcao(row) ==
    IF FLt(row.adx, ADX_MIN) THEN "NAO_ENTRAR"
    ELSE IF FGt(row.ema_fast, row.ema_slow) /\ FGt(row.pdi, row.mdi) THEN "LONG"
    ELSE IF FLt(row.ema_fast, row.ema_slow) /\ FLt(row.pdi, row.mdi) THEN "SHORT"
    ELSE "NAO_ENTRAR"

alvo_basico(entry, side) ==
    IF side = "LONG"
    THEN FMul(entry, FAdd(F(1, 1), FDiv(MIN_EXPECTED_PROFIT_PCT, F(100, 1))))
    ELSE IF side = "SHORT"
    THEN FMul(entry, FSub(F(1, 1), FDiv(MIN_EXPECTED_PROFIT_PCT, F(100, 1))))
    ELSE entry

assertividade_placeholder == F(70, 1)

\* Python raises ZeroDivisionError here for entry = 0: decidir_sinal below
\* returns "raise" in that case.
D_pnl_pct(side, alvo, entry) ==
    IF side = "LONG"
    THEN FMul(FSub(FDiv(alvo, entry), F(1, 1)), F(100, 1))
    ELSE FMul(FSub(F(1, 1), FDiv(alvo, entry)), F(100, 1))

\* decidir_sinal on a frame whose last row is last.
decidir_sinal(last) ==
    LET side == filtros_direcao(last)
        entry == last.close
        alvo == alvo_basico(entry, side)
        pnl_pct == D_pnl_pct(side, alvo, entry)
        assertiv == assertividade_placeholder
    IN  IF side = "NAO_ENTRAR"
        THEN [kind |-> "dict", side |-> side,
              value |-> [SIDE |-> "NAO ENTRAR",
                         ENTRADA |-> FRound(entry, 3),
                         ALVO |-> FRound(entry, 3),
                         PNL_PCT |-> FZero,
                         ASSERTIVIDADE_PCT |-> FZero,
                         SITUACAO |-> "Fora dos filtros"]]
        ELSE IF entry = FZero
        THEN [kind |-> "raise", side |-> side]
        ELSE IF FLt(pnl_pct, MIN_EXPECTED_PROFIT_PCT) \/ FLt(assertiv, MIN_ASSERTIVIDADE)
        THEN [kind |-> "dict", side |-> side,
              value |-> [SIDE |-> "NAO ENTRAR",
                         ENTRADA |-> FRound(entry, 3),
                         ALVO |-> FRound(alvo, 3),
                         PNL_PCT |-> FRound(pnl_pct, 2),
                         ASSERTIVIDADE_PCT |-> FRound(assertiv, 2),
                         SITUACAO |-> "Reprovado por filtros"]]
        ELSE [kind |-> "dict", side |-> side,
              value |-> [SIDE |-> side,
                         ENTRADA |-> FRound(entry, 3),
                         ALVO |-> FRound(alvo, 3),
                         PNL_PCT |-> FRound(pnl_pct, 2),
                         ASSERTIVIDADE_PCT |-> FRound(assertiv, 2),
                         SITUACAO |-> "Apto"]]

\* The coins of the universe, in the order sorted(COINS) gives them; a run
\* covers the first MaxCoins of them.
ALL_COINS == <<"AAVE", "ADA", "APT", "ARB", "ATOM", "AVAX", "AXS", "BCH", "BNB">>

MaxCoins == 2

COINS == SubSeq(ALL_COINS, 1, MaxCoins)

\* The position of a coin in the alphabetical order.
CoinRank(par) == CHOOSE i \in 1..Len(ALL_COINS) : ALL_COINS[i] = par

RECURSIVE Insert(_, _)
Insert(s, x) ==
    IF s = <<>> THEN <<x>>
    ELSE IF CoinRank(x.par) < CoinRank(Head(s).par) THEN <<x>> \o s
    ELSE <<Head(s)>> \o Insert(Tail(s), x)

RECURSIVE SortedByPar(_)
\* sorted(lista, key=lambda s: s.par): a stable insertion sort.
SortedByPar(lista) ==
    IF lista = <<>> THEN <<>>
    ELSE LET n == Len(lista)
         IN  Insert(SortedByPar(SubSeq(lista, 1, n - 1)), lista[n])

\* ------------------------------------------------------------------------
\* exchanges.py
\* ------------------------------------------------------------------------

\* order with Gate.io before KuCoin.
order_gateio_first == <<"gateio", "kucoin", "okx">>

\* The exchanges get_ohlcv goes through, in this order.
order == <<"kucoin", "gateio", "okx">>

\* A call of ex.fetch_ohlcv on the exchange name raises, or returns a list of
\* candles of that exchange, which may be empty.
FetchOhlcvAnswers(name) ==
    {[kind |-> "raise"]} \cup {[kind |-> "list", rows |-> n, de |-> name] : n \in {0, 1, 200}}

\* ------------------------------------------------------------------------
\* worker_saida.py
\* ------------------------------------------------------------------------

\* Python's None where a float is expected.
None == <<0, 2>>

\* Python's None where a str is expected.
NoneStr == "<None>"

\* str.upper() on the strings the model uses.
Upper(str) ==
    CASE str = "long" -> "LONG"
      [] str = "Short" -> "SHORT"
      [] str = "buy" -> "BUY"
      [] OTHER -> str

\* calcular_alvos_profissionais with the SHORT targets above the entry.
calcular_alvos_profissionais_short_up(side, preco_entrada, atr) ==
    IF atr = None \/ FLe(preco_entrada, FZero) THEN <<None, None, None>>
    ELSE LET side_u == Upper(IF side = NoneStr \/ side = "" THEN "" ELSE side)
         IN  IF side_u \in {"LONG", "SHORT"}
             THEN <<FAdd(preco_entrada, FMul(F(618, 1000), atr)),
                    FAdd(preco_entrada, FMul(F(1000, 1000), atr)),
                    FAdd(preco_entrada, FMul(F(1618, 1000), atr))>>
             ELSE <<None, None, None>>

\* The three targets <<a1, a2, a3>>, or <<None, None, None>>.
calcular_alvos_profissionais(side, preco_entrada, atr) ==
    IF atr = None \/ FLe(preco_entrada, FZero) THEN <<None, None, None>>
    ELSE LET side_u == Upper(IF side = NoneStr \/ side = "" THEN "" ELSE side)
         IN  IF side_u = "LONG"
             THEN <<FAdd(preco_entrada, FMul(F(618, 1000), atr)),
                    FAdd(preco_entrada, FMul(F(1000, 1000), atr)),
                    FAdd(preco_entrada, FMul(F(1618, 1000), atr))>>
             ELSE IF side_u = "SHORT"
             THEN <<FSub(preco_entrada, FMul(F(618, 1000), atr)),
                    FSub(preco_entrada, FMul(F(1000, 1000), atr)),
                    FSub(preco_entrada, FMul(F(1618, 1000), atr))>>
             ELSE <<None, None, None>>

\* PNL% of the operation, by its direction.
calcular_pnl_pct(side, preco_entrada, preco_atual) ==
    IF preco_entrada = None \/ preco_entrada = FZero \/ preco_atual = None THEN FZero
    ELSE LET side_u == Upper(IF side = NoneStr \/ side = "" THEN "" ELSE side)
             pnl == IF side_u = "LONG"
                    THEN FMul(FDiv(FSub(preco_atual, preco_entrada), preco_entrada), F(100, 1))
                    ELSE IF side_u = "SHORT"
                    THEN FMul(FDiv(FSub(preco_entrada, preco_atual), preco_entrada), F(100, 1))
                    ELSE FZero
         IN  FRound(pnl, 2)

\* The gain (%) expected between the entry and the target.
calcular_ganho_pct(side, preco_entrada, alvo) ==
    IF alvo = None \/ preco_entrada = None \/ preco_entrada = FZero THEN FZero
    ELSE LET side_u == Upper(IF side = NoneStr \/ side = "" THEN "" ELSE side)
             ganho == IF side_u = "LONG"
                      THEN FMul(FDiv(FSub(alvo, preco_entrada), preco_entrada), F(100, 1))
                      ELSE IF side_u = "SHORT"
                      THEN FMul(FDiv(FSub(preco_entrada, alvo), preco_entrada), F(100, 1))
                      ELSE FZero
         IN  FRound(ganho, 2)

\* classificar_situacao testing the targets from the nearest one on.
classificar_situacao_nearest_first(side, preco_atual, alvo_1, alvo_2, alvo_3) ==
    IF preco_atual = None \/ alvo_1 = None THEN "ABERTA"
    ELSE LET side_u == Upper(IF side = NoneStr \/ side = "" THEN "" ELSE side)
         IN  IF side_u = "LONG"
             THEN IF FGe(preco_atual, alvo_1) THEN "ALVO 1"
                  ELSE IF alvo_2 # None /\ FGe(preco_atual, alvo_2) THEN "ALVO 2"
                  ELSE IF alvo_3 # None /\ FGe(preco_atual, alvo_3) THEN "ALVO 3"
                  ELSE "ABERTA"
             ELSE IF side_u = "SHORT"
             THEN IF FLe(preco_atual, alvo_1) THEN "ALVO 1"
                  ELSE IF alvo_2 # None /\ FLe(preco_atual, alvo_2) THEN "ALVO 2"
                  ELSE IF alvo_3 # None /\ FLe(preco_atual, alvo_3) THEN "ALVO 3"
                  ELSE "ABERTA"
             ELSE "ABERTA"

\* SITUACAO from the current price and the targets.
classificar_situacao(side, preco_atual, alvo_1, alvo_2, alvo_3) ==
    IF preco_atual = None \/ alvo_1 = None THEN "ABERTA"
    ELSE LET side_u == Upper(IF side = NoneStr \/ side = "" THEN "" ELSE side)
         IN  IF side_u = "LONG"
             THEN IF alvo_3 # None /\ FGe(preco_atual, alvo_3) THEN "ALVO 3"
                  ELSE IF alvo_2 # None /\ FGe(preco_atual, alvo_2) THEN "ALVO 2"
                  ELSE IF FGe(preco_atual, alvo_1) THEN "ALVO 1"
                  ELSE "ABERTA"
             ELSE IF side_u = "SHORT"
             THEN IF alvo_3 # None /\ FLe(preco_atual, alvo_3) THEN "ALVO 3"
                  ELSE IF alvo_2 # None /\ FLe(preco_atual, alvo_2) THEN "ALVO 2"
                  ELSE IF FLe(preco_atual, alvo_1) THEN "ALVO 1"
                  ELSE "ABERTA"
             ELSE "ABERTA"

\* A JSON value float() and int() reject: a string that is no number.
Texto == <<0, 3>>

\* x or y, for numbers or None: a missing value and 0 both give way to y.
Or(x, y) == IF x = None \/ x = FZero THEN y ELSE x

\* carregar_json: the list of the file; [] when the file is missing, is
\* not valid JSON or holds something else than a list.
carregar_json(file) == IF file.kind = "list" THEN file.data ELSE <<>>

\* The body of the loop of processar_operacoes for one operation: the line
\* appended to saida_monitoramento, or no line (kind says why: "continue",
\* or "except" with an error logged).  The candles obter_ohlcv_4h returns
\* for the pair and the ATR calcular_atr derives from them come with the
\* operation.
S_processar_op(oper, ts) ==
    IF ~oper.dict THEN [kind |-> "except"]
    ELSE LET par == Upper(oper.par)
             side == Upper(oper.side)
             preco_entrada == Or(oper.entrada, None)
             alav == Or(oper.alav, F(1, 1))
         IN  IF par = "" THEN [kind |-> "continue"]
             ELSE IF preco_entrada = None THEN [kind |-> "continue"]
             ELSE IF preco_entrada = Texto THEN [kind |-> "except"]
             ELSE IF alav = Texto THEN [kind |-> "except"]
             ELSE IF oper.ohlcv.kind = "None" THEN [kind |-> "continue"]
             ELSE LET preco_atual == oper.ohlcv.close
                      atr == oper.ohlcv.atr
                      alvos == calcular_alvos_profissionais(side, preco_entrada, atr)
                      NoneOr(alvo, x) == IF alvo = None THEN None ELSE x
                  IN  [kind |-> "linha",
                       linha |->
                         [par |-> par, side |-> side, modo |-> "SWING",
                          entrada |-> FRound(preco_entrada, 3),
                          preco |-> FRound(preco_atual, 3),
                          pnl_pct |-> calcular_pnl_pct(side, preco_entrada, preco_atual),
                          alvo_1 |-> NoneOr(alvos[1], FRound(alvos[1], 3)),
                          ganho_1_pct |-> NoneOr(alvos[1],
                              calcular_ganho_pct(side, preco_entrada, alvos[1])),
                          alvo_2 |-> NoneOr(alvos[2], FRound(alvos[2], 3)),
                          ganho_2_pct |-> NoneOr(alvos[2],
                              calcular_ganho_pct(side, preco_entrada, alvos[2])),
                          alvo_3 |-> NoneOr(alvos[3], FRound(alvos[3], 3)),
                          ganho_3_pct |-> NoneOr(alvos[3],
                              calcular_ganho_pct(side, preco_entrada, alvos[3])),
                          situacao |-> classificar_situacao(side, preco_atual, alvos[1],
                                                            alvos[2], alvos[3]),
                          alav |-> alav, data |-> ts, hora |-> ts]]

RECURSIVE S_loop(_, _, _)
\* The loop of processar_operacoes: saida_monitoramento after the
\* operations operacoes, started from saida.
S_loop(operacoes, saida, ts) ==
    IF operacoes = <<>> THEN saida
    ELSE LET r == S_processar_op(Head(operacoes), ts)
         IN  S_loop(Tail(operacoes),
                    IF r.kind = "linha" THEN Append(saida, r.linha) ELSE saida, ts)

\* processar_operacoes on the manual file at clock reading ts: the list it
\* hands to salvar_json.
processar_operacoes(file, ts) ==
    LET operacoes == carregar_json(file)
    IN  IF operacoes = <<>> THEN <<>> ELSE S_loop(operacoes, <<>>, ts)

\* ------------------------------------------------------------------------
\* price_stream.py
\* ------------------------------------------------------------------------

\* recalc_gain_for_signal with every signal that is not LONG taken as SHORT.
recalc_gain_for_signal_else_short(preco_atual, alvo, sinal, ganho_original) ==
    IF FLe(alvo, FZero) \/ FLe(preco_atual, FZero) THEN ganho_original
    ELSE IF sinal = "LONG"
    THEN FMul(FSub(FDiv(alvo, preco_atual), F(1, 1)), F(100, 1))
    ELSE FMul(FSub(FDiv(preco_atual, alvo), F(1, 1)), F(100, 1))

recalc_gain_for_signal(preco_atual, alvo, sinal, ganho_original) ==
    IF FLe(alvo, FZero) \/ FLe(preco_atual, FZero) THEN ganho_original
    ELSE IF sinal = "LONG"
    THEN FMul(FSub(FDiv(alvo, preco_atual), F(1, 1)), F(100, 1))
    ELSE IF sinal = "SHORT"
    THEN FMul(FSub(FDiv(preco_atual, alvo), F(1, 1)), F(100, 1))
    ELSE ganho_original

\* prices.get(coin): prices is a function from some coins to their prices.
PricesGet(prices, coin) == IF coin \in DOMAIN prices THEN prices[coin] ELSE None

\* x or 0.0, for x a float or None.
OrZero(x) == IF x = None THEN FZero ELSE x

\* P_update_entry with a price of 0.0 taken as a price.
P_update_entry_zero_price(s, prices) ==
    IF s.par = "" THEN s
    ELSE IF PricesGet(prices, s.par) = None THEN s
    ELSE LET preco_atual == PricesGet(prices, s.par)
             ganho_novo == recalc_gain_for_signal(preco_atual, OrZero(s.alvo), s.sinal,
                                                  OrZero(s.ganho_pct))
         IN  [s EXCEPT !.preco = FRound(preco_atual, PRICE_DECIMALS),
                       !.ganho_pct = FRound(ganho_novo, PCT_DECIMALS)]

\* The body of the inner loop of update_payload_with_prices on the entry s.
P_update_entry(s, prices) ==
    IF s.par = "" THEN s
    ELSE IF PricesGet(prices, s.par) \in {None, FZero} THEN s
    ELSE LET preco_atual == PricesGet(prices, s.par)
             ganho_novo == recalc_gain_for_signal(preco_atual, OrZero(s.alvo), s.sinal,
                                                  OrZero(s.ganho_pct))
         IN  [s EXCEPT !.preco = FRound(preco_atual, PRICE_DECIMALS),
                       !.ganho_pct = FRound(ganho_novo, PCT_DECIMALS)]

\* update_payload_with_prices when now_brt() reads ts.
update_payload_with_prices(payload_in, prices, ts) ==
    [payload_in EXCEPT
        !.swing = [i \in DOMAIN payload_in.swing |-> P_update_entry(payload_in.swing[i], prices)],
        !.posicional = [i \in DOMAIN payload_in.posicional |->
                            P_update_entry(payload_in.posicional[i], prices)],
        !.generated_at = ts]

\* ------------------------------------------------------------------------
\* entrada.json
\* ------------------------------------------------------------------------

ENTRADA_JSON_PATH == "entrada.json"

\* salvar_json writing straight into entrada.json.
W_tmp_path_in_place == ENTRADA_JSON_PATH

\* salvar_json: tmp_path.
W_tmp_path == "entrada.json.tmp"

\* main_loop: tmp_path.
P_tmp_path == "entrada.json.price.tmp"

FileNames == {ENTRADA_JSON_PATH, "entrada.json.tmp", "entrada.json.price.tmp"}

\* json.dump writes a document in MaxChunks pieces; a file that holds fewer
\* of them does not parse.
MaxChunks == 2

Absent == [exists |-> FALSE, written |-> 0, data |-> [kind |-> "None"]]

\* open(path, "w"): the file exists and is empty.
Truncated == [exists |-> TRUE, written |-> 0, data |-> [kind |-> "None"]]

\* The file after json.dump wrote one more piece of the document data: the
\* document is there with its last piece, before that the file is a prefix
\* that does not parse.
Written(file, data) ==
    [exists |-> TRUE, written |-> file.written + 1,
     data |-> IF file.written + 1 = MaxChunks THEN data ELSE [kind |-> "None"]]

\* The file holds a whole document.
Complete(file) == file.exists /\ file.written = MaxChunks

\* os.replace(src, dst): dst becomes the file src was, in one step.
os_replace(fs, src, dst) ==
    IF src = dst THEN fs ELSE [fs EXCEPT ![dst] = fs[src], ![src] = Absent]

\* ------------------------------------------------------------------------
\* Inputs
\* ------------------------------------------------------------------------

Modos == {"swing", "posicional"}

PrecoVals == {F(0, 1), F(-100, 1), F(183, 10), F(50, 1), F(100, 1)}

\* <<ema_fast, ema_slow>>: above, below, equal.
EmaPairs == {<<F(105, 1), F(100, 1)>>, <<F(49, 1), F(51, 1)>>, <<F(100, 1), F(100, 1)>>}

AtrVals == {F(0, 1), F(1, 10), F(2, 1), F(5, 1), F(40, 1)}

AdxVals == {F(0, 1), F(5, 1), F(19, 1), F(20, 1), F(30, 1), F(50, 1), F(100, 1)}

\* <<+DI, -DI>>: above, below, equal.
DiPairs == {<<F(25, 1), F(15, 1)>>, <<F(15, 1), F(25, 1)>>, <<F(20, 1), F(20, 1)>>}

\* The indicator sets analisar_sinal is called with: finite, as
\* calcular_indicadores returns them.
IndicatorSets ==
    {[preco |-> p, ema_fast |-> e[1], ema_slow |-> e[2], atr |-> a, adx |-> d] :
        p \in PrecoVals, e \in EmaPairs, a \in AtrVals, d \in AdxVals}

MaxBars == 61

Df(n, p, e, a, d) ==
    [kind |-> "df", shape0 |-> n, close |-> p, ema_fast |-> e[1], ema_slow |-> e[2],
     atr |-> a, adx |-> d]

\* The candle frames calcular_sinal_para_df is called with.
WorkerDfs ==
    {Df(n, p, e, a, d) :
        n \in {26, 59, 60, MaxBars},
        p \in PrecoVals \cup {NaN}, e \in EmaPairs \cup {<<NaN, F(100, 1)>>},
        a \in AtrVals \cup {NaN}, d \in AdxVals \cup {NaN}}

\* The candle frames calcular_indicadores is called with.
IndicadoresDfs ==
    {Df(n, p, e, a, d) :
        n \in 0..MaxBars,
        p \in {F(100, 1), NaN},
        e \in {<<F(105, 1), F(100, 1)>>, <<NaN, F(100, 1)>>, <<F(105, 1), NaN>>},
        a \in {F(2, 1), NaN}, d \in {F(30, 1), NaN}}

\* <<janela_ema_rapida, janela_ema_lenta, janela_atr, janela_adx>>; the first
\* are the defaults.
Janelas == {<<9, 21, 14, 14>>, <<9, 21, 30, 14>>, <<9, 21, 14, 28>>, <<12, 26, 14, 14>>}

\* The last rows decidir_sinal is called with (after dropna: finite).
LastRows ==
    {[close |-> p, atr |-> F(2, 1), adx |-> d, ema_fast |-> e[1], ema_slow |-> e[2],
      pdi |-> di[1], mdi |-> di[2]] :
        p \in PrecoVals, e \in EmaPairs, d \in AdxVals, di \in DiPairs}

\* The sides calcular_alvos_profissionais is called with.
Sides == {"LONG", "SHORT", "long", "Short", "buy", "NAO ENTRAR", "", NoneStr}

\* The ATR values calcular_atr hands over: None, or a float.
SaidaAtrVals == {None, F(-2, 1)} \cup AtrVals

\* The targets classificar_situacao is called with: those of
\* calcular_alvos_profissionais for an entry at 100 (ATR 2, 0 and the
\* impossible -2, whose targets lie on the wrong side), and triples with
\* targets missing.
SituacaoAlvos ==
    {calcular_alvos_profissionais(side, F(100, 1), atr) :
        side \in {"LONG", "SHORT"}, atr \in {None, F(0, 1), F(2, 1), F(-2, 1)}}
    \cup {<<F(101, 1), None, None>>, <<F(101, 1), None, F(103, 1)>>,
          <<None, F(102, 1), F(103, 1)>>, <<F(99, 1), F(98, 1), None>>}

\* The current prices: None, or a price around the targets or on one.
SituacaoPrecos ==
    {None, F(95, 1), F(99, 1), F(100, 1), F(1015, 10), F(105, 1)}
    \cup {t[i] : t \in SituacaoAlvos, i \in 1..3}

\* The arguments recalc_gain_for_signal is called with.
RecalcPrecos == PrecoVals \cup {F(101, 1)}

RecalcAlvos == {F(0, 1), F(-103, 1), F(97, 1), F(103, 1)}

RecalcSinais == {"LONG", "SHORT", "NAO ENTRAR", "long"}

RecalcGanhos == {F(0, 1), F(3, 1), F(125, 10)}

Entry(par, sinal, preco, alvo, ganho_pct, assert_pct) ==
    [par |-> par, sinal |-> sinal, preco |-> preco, alvo |-> alvo,
     ganho_pct |-> ganho_pct, assert_pct |-> assert_pct, data |-> 0, hora |-> 0]

\* Entries of entrada.json: a LONG, a SHORT, a "NAO ENTRAR" without target,
\* an entry without pair.
Entries ==
    {Entry("AAVE", "LONG", F(100, 1), F(103, 1), F(3, 1), F(75, 1)),
     Entry("ADA", "SHORT", F(100, 1), F(97, 1), F(3, 1), F(65, 1)),
     Entry("ADA", "NAO ENTRAR", F(50, 1), None, F(0, 1), F(0, 1)),
     Entry("", "LONG", F(100, 1), F(103, 1), F(3, 1), F(75, 1))}

SeqsUpTo(S, n) == UNION {[1..k -> S] : k \in 0..n}

\* The payloads update_payload_with_prices is called with, stamped before
\* the run.
Payloads ==
    {[kind |-> "dict", generated_at |-> -1, swing |-> sw, posicional |-> po] :
        sw \in SeqsUpTo(Entries, 2), po \in SeqsUpTo(Entries, 1)}

\* The price maps fetch_prices returns: a coin has a price, a price of 0.0, a
\* negative price, or none.
PriceMaps ==
    UNION {[D -> {F(0, 1), F(101, 1), F(-5, 1)}] : D \in SUBSET {"AAVE", "ADA"}}

\* The operations of saida_manual.json hold at most MaxOps entries.
MaxOps == 2

Operacao(par, side, entrada, alav, ohlcv) ==
    [dict |-> TRUE, par |-> par, side |-> side, entrada |-> entrada, alav |-> alav,
     ohlcv |-> ohlcv]

\* What obter_ohlcv_4h and calcular_atr give for an operation: no candles,
\* or the last close with the ATR (None when it cannot be computed).
SaidaOhlcv(close, atr) == [kind |-> "df", close |-> close, atr |-> atr]

\* Entries of saida_manual.json: a LONG and a SHORT that are complete, then
\* one without pair, without entry price, with an entry price of 0, with an
\* entry price and with a leverage that are no numbers, one whose candles
\* are unavailable, and an entry that is no object.
SaidaOps ==
    {Operacao("AAVE", "long", F(100, 1), None, SaidaOhlcv(F(1015, 10), F(2, 1))),
     Operacao("ADA", "SHORT", F(100, 1), F(3, 1), SaidaOhlcv(F(98, 1), None)),
     Operacao("", "LONG", F(100, 1), None, SaidaOhlcv(F(1015, 10), F(2, 1))),
     Operacao("APT", "LONG", None, None, SaidaOhlcv(F(1015, 10), F(2, 1))),
     Operacao("ARB", "LONG", F(0, 1), None, SaidaOhlcv(F(1015, 10), F(2, 1))),
     Operacao("ATOM", "LONG", Texto, None, SaidaOhlcv(F(1015, 10), F(2, 1))),
     Operacao("AVAX", "LONG", F(100, 1), Texto, SaidaOhlcv(F(1015, 10), F(2, 1))),
     Operacao("AXS", "LONG", F(100, 1), None, [kind |-> "None"]),
     [dict |-> FALSE]}

\* saida_manual.json: missing, not valid JSON, an object, or a list.
ManualFiles ==
    {[kind |-> "missing"], [kind |-> "invalid"], [kind |-> "object"]}
    \cup {[kind |-> "list", data |-> ops] : ops \in SeqsUpTo(SaidaOps, MaxOps)}

\* ------------------------------------------------------------------------
\* The runs: one call of a function of the engine, or one run of
\* worker_entrada.main
\* ------------------------------------------------------------------------

\* The clock readings of a run are 0..MaxNow.
MaxNow == 1

Idle == [kind |-> "idle"]

NoPayload == [kind |-> "None"]

\* fetch_ohlcv_any returned None (both exchanges failed).
NoDf == [kind |-> "None"]

\* What fetch_ohlcv_any returns to gerar_sinais: None, or a candle frame --
\* one that is published, one filtered for its gain, one filtered for its
\* confidence (equal EMAs, weak ADX), one whose last close is 0, one with too
\* few candles, one whose ATR is not finite.
FetchOutcomes ==
    {NoDf,
     Df(MaxBars, F(100, 1), <<F(105, 1), F(100, 1)>>, F(2, 1), F(30, 1)),
     Df(MaxBars, F(183, 10), <<F(49, 1), F(51, 1)>>, F(1, 10), F(30, 1)),
     Df(MaxBars, F(100, 1), <<F(100, 1), F(100, 1)>>, F(2, 1), F(5, 1)),
     Df(MaxBars, F(0, 1), <<F(105, 1), F(100, 1)>>, F(2, 1), F(30, 1)),
     Df(W_MIN_CANDLES - 1, F(100, 1), <<F(105, 1), F(100, 1)>>, F(2, 1), F(30, 1)),
     Df(MaxBars, F(100, 1), <<F(105, 1), F(100, 1)>>, NaN, F(30, 1))}

\* entrada.json does not exist yet; the worker and price_stream are started.
InitFiles ==
    /\ files = [f \in FileNames |-> Absent]
    /\ w_pc = "main"
    /\ w_payload = NoPayload
    /\ p_pc = "read"
    /\ p_payload = NoPayload
    /\ observed = Absent

InitBatch ==
    /\ pc = "main"
    /\ coin_i = 1
    /\ swing = <<>>
    /\ posicional = <<>>
    /\ logs = <<>>
    /\ payload = NoPayload

Init ==
    /\ op = "idle"
    /\ args = Idle
    /\ ret = Idle
    /\ now = 0
    /\ InitBatch
    /\ order_i = 1
    /\ contacted = <<>>
    /\ errors = <<>>
    /\ InitFiles

\* Nothing has run yet.
Fresh == op = "idle" /\ pc = "main"

Call_analisar_sinal ==
    /\ Fresh
    /\ \E coin \in {"AAVE"}, modo \in Modos, indicadores \in IndicatorSets :
        /\ op' = "analisar_sinal"
        /\ args' = [coin |-> coin, modo |-> modo, indicadores |-> indicadores]
        /\ ret' = analisar_sinal(coin, modo, indicadores)
    /\ UNCHANGED <<now, batchVars, fetchVars, fileVars>>

Call_calcular_indicadores ==
    /\ Fresh
    /\ \E df \in IndicadoresDfs, j \in Janelas :
        /\ op' = "calcular_indicadores"
        /\ args' = [df |-> df, janela_ema_rapida |-> j[1], janela_ema_lenta |-> j[2],
                    janela_atr |-> j[3], janela_adx |-> j[4]]
        /\ ret' = calcular_indicadores(df, j[1], j[2], j[3], j[4])
    /\ UNCHANGED <<now, batchVars, fetchVars, fileVars>>

\* now_brt() is read only on the path that publishes.
Call_calcular_sinal_para_df ==
    /\ Fresh
    /\ \E coin \in {"AAVE"}, df \in WorkerDfs, modo \in Modos, ts \in now..MaxNow :
        \E r \in {calcular_sinal_para_df(coin, df, modo, ts)} :
            /\ op' = "calcular_sinal_para_df"
            /\ args' = [coin |-> coin, df |-> df, modo |-> modo]
            /\ ret' = r
            /\ now' = IF r.kind = "SinalEntrada" THEN ts ELSE now
    /\ UNCHANGED <<batchVars, fetchVars, fileVars>>

Call_decidir_sinal ==
    /\ Fresh
    /\ \E last \in LastRows :
        /\ op' = "decidir_sinal"
        /\ args' = [last |-> last]
        /\ ret' = decidir_sinal(last)
    /\ UNCHANGED <<now, batchVars, fetchVars, fileVars>>

\* main() enters gerar_sinais: the lists are empty, the loop is at the first coin.
gerar_sinais_start ==
    /\ Fresh
    /\ pc' = "swing"
    /\ logs' = Append(logs, <<"", "", "Gerando sinais">>)
    /\ UNCHANGED <<engineVars, fetchVars, fileVars, now, coin_i, swing, posicional, payload>>

\* One half of the loop body: the candles of the mode are fetched and, if
\* there are any, evaluated.  A failed fetch leaves a log line, as a skipped
\* or filtered evaluation does.
gerar_sinais_half(coin, fetched, modo, ts) ==
    IF fetched = NoDf
    THEN [kind |-> "None", log |-> "Falha ao buscar OHLCV"]
    ELSE calcular_sinal_para_df(coin, fetched, modo, ts)

\* The swing half for COINS[coin_i]: the signal, if there is one, is appended
\* to swing; an exception ends the run.
gerar_sinais_swing ==
    /\ pc = "swing"
    /\ \E fetched \in FetchOutcomes, ts \in now..MaxNow :
        \E r \in {gerar_sinais_half(COINS[coin_i], fetched, "swing", ts)} :
            /\ pc' = IF r.kind = "raise" THEN "raised" ELSE "posicional"
            /\ swing' = IF r.kind = "SinalEntrada" THEN Append(swing, r.value) ELSE swing
            /\ logs' = IF r.kind = "None"
                       THEN Append(logs, <<COINS[coin_i], "swing", r.log>>)
                       ELSE logs
            /\ now' = IF r.kind = "SinalEntrada" THEN ts ELSE now
    /\ UNCHANGED <<engineVars, fetchVars, fileVars, coin_i, posicional, payload>>

\* The posicional half for COINS[coin_i], then the next coin or the end of
\* the loop.
gerar_sinais_posicional ==
    /\ pc = "posicional"
    /\ \E fetched \in FetchOutcomes, ts \in now..MaxNow :
        \E r \in {gerar_sinais_half(COINS[coin_i], fetched, "posicional", ts)} :
            /\ pc' = IF r.kind = "raise" THEN "raised"
                     ELSE IF coin_i = Len(COINS) THEN "sort" ELSE "swing"
            /\ coin_i' = IF r.kind # "raise" /\ coin_i < Len(COINS)
                         THEN coin_i + 1 ELSE coin_i
            /\ posicional' = IF r.kind = "SinalEntrada"
                             THEN Append(posicional, r.value) ELSE posicional
            /\ logs' = IF r.kind = "None"
                       THEN Append(logs, <<COINS[coin_i], "posicional", r.log>>)
                       ELSE logs
            /\ now' = IF r.kind = "SinalEntrada" THEN ts ELSE now
    /\ UNCHANGED <<engineVars, fetchVars, fileVars, swing, payload>>

\* After the loop: both lists sorted by pair, the payload built and returned.
gerar_sinais_return ==
    /\ pc = "sort"
    /\ \E ts \in now..MaxNow :
        /\ now' = ts
        /\ payload' = [kind |-> "dict", generated_at |-> ts,
                       swing |-> SortedByPar(swing),
                       posicional |-> SortedByPar(posicional)]
    /\ logs' = Append(logs, <<"", "", "Sinais gerados">>)
    /\ pc' = "returned"
    /\ UNCHANGED <<engineVars, fetchVars, fileVars, coin_i, swing, posicional>>

Call_calcular_alvos_profissionais ==
    /\ Fresh
    /\ \E side \in Sides, preco_entrada \in PrecoVals, atr \in SaidaAtrVals :
        /\ op' = "calcular_alvos_profissionais"
        /\ args' = [side |-> side, preco_entrada |-> preco_entrada, atr |-> atr]
        /\ ret' = calcular_alvos_profissionais(side, preco_entrada, atr)
    /\ UNCHANGED <<now, batchVars, fetchVars, fileVars>>

Call_classificar_situacao ==
    /\ Fresh
    /\ \E side \in Sides, preco_atual \in SituacaoPrecos, alvos \in SituacaoAlvos :
        /\ op' = "classificar_situacao"
        /\ args' = [side |-> side, preco_atual |-> preco_atual, alvo_1 |-> alvos[1],
                    alvo_2 |-> alvos[2], alvo_3 |-> alvos[3]]
        /\ ret' = classificar_situacao(side, preco_atual, alvos[1], alvos[2], alvos[3])
    /\ UNCHANGED <<now, batchVars, fetchVars, fileVars>>

\* processar_operacoes: the list is handed to salvar_json, which writes it
\* or logs that it could not.
Call_processar_operacoes ==
    /\ Fresh
    /\ \E file \in ManualFiles, ts \in now..MaxNow, gravado \in BOOLEAN :
        /\ op' = "processar_operacoes"
        /\ args' = [file |-> file]
        /\ ret' = [dados |-> processar_operacoes(file, ts), gravado |-> gravado]
        /\ now' = ts
    /\ UNCHANGED <<batchVars, fetchVars, fileVars>>

Call_recalc_gain_for_signal ==
    /\ Fresh
    /\ \E preco_atual \in RecalcPrecos, alvo \in RecalcAlvos, sinal \in RecalcSinais,
          ganho_original \in RecalcGanhos :
        /\ op' = "recalc_gain_for_signal"
        /\ args' = [preco_atual |-> preco_atual, alvo |-> alvo, sinal |-> sinal,
                    ganho_original |-> ganho_original]
        /\ ret' = recalc_gain_for_signal(preco_atual, alvo, sinal, ganho_original)
    /\ UNCHANGED <<now, batchVars, fetchVars, fileVars>>

\* now_brt() is read for generated_at.
Call_update_payload_with_prices ==
    /\ Fresh
    /\ \E payload_in \in Payloads, prices \in PriceMaps, ts \in now..MaxNow :
        /\ op' = "update_payload_with_prices"
        /\ args' = [payload |-> payload_in, prices |-> prices]
        /\ ret' = update_payload_with_prices(payload_in, prices, ts)
        /\ now' = ts
    /\ UNCHANGED <<batchVars, fetchVars, fileVars>>

\* get_ohlcv is called: the exchanges are created, the loop is at order[1].
get_ohlcv_start ==
    /\ Fresh
    /\ \E coin \in {"BTC"}, timeframe \in {"4h", "1d"} :
        /\ op' = "get_ohlcv"
        /\ args' = [coin |-> coin, timeframe |-> timeframe, limit |-> 200]
    /\ UNCHANGED <<ret, now, batchVars, fetchVars, fileVars>>

\* One turn of the loop: order[order_i] is asked for the candles.  A
\* non-empty list is returned as a DataFrame; an exception or an empty list
\* (ValueError "Lista OHLCV vazia") is noted in errors and the loop goes on.
get_ohlcv_try ==
    /\ op = "get_ohlcv"
    /\ ret = Idle
    /\ order_i <= Len(order)
    /\ \E ohlcv \in FetchOhlcvAnswers(order[order_i]) :
        /\ contacted' = Append(contacted, order[order_i])
        /\ IF ohlcv.kind = "list" /\ ohlcv.rows # 0
           THEN /\ ret' = [kind |-> "DataFrame", shape0 |-> ohlcv.rows, de |-> ohlcv.de]
                /\ UNCHANGED <<order_i, errors>>
           ELSE /\ errors' = Append(errors,
                        <<order[order_i],
                          IF ohlcv.kind = "raise" THEN "raise" ELSE "Lista OHLCV vazia">>)
                /\ order_i' = order_i + 1
                /\ UNCHANGED ret
    /\ UNCHANGED <<op, args, now, batchVars, fileVars>>

\* The loop is over without a return: None.
get_ohlcv_none ==
    /\ op = "get_ohlcv"
    /\ ret = Idle
    /\ order_i > Len(order)
    /\ ret' = [kind |-> "None"]
    /\ UNCHANGED <<op, args, now, batchVars, fetchVars, fileVars>>

Next ==
    \/ Call_analisar_sinal
    \/ Call_calcular_indicadores
    \/ Call_calcular_sinal_para_df
    \/ Call_decidir_sinal
    \/ gerar_sinais_start
    \/ gerar_sinais_swing
    \/ gerar_sinais_posicional
    \/ gerar_sinais_return
    \/ get_ohlcv_start
    \/ get_ohlcv_try
    \/ get_ohlcv_none
    \/ Call_calcular_alvos_profissionais
    \/ Call_classificar_situacao
    \/ Call_processar_operacoes
    \/ Call_recalc_gain_for_signal
    \/ Call_update_payload_with_prices

Spec == Init /\ [][Next]_vars

\* ------------------------------------------------------------------------
\* entrada.json between worker_entrada.main, price_stream.main_loop and the
\* panel that reads it
\* ------------------------------------------------------------------------

\* What the exchanges answer during one run of the worker, per coin and
\* mode: every fetch gives a frame that is published LONG; the swing fetches
\* give a frame that is published SHORT and the others fail; every fetch
\* fails; the swing fetches give a frame filtered for its confidence and the
\* others one filtered for its gain; every fetch gives a frame whose last
\* close is 0.
FileMarkets ==
    LET Keys == {COINS[i] : i \in 1..Len(COINS)} \X Modos
    IN  {[k \in Keys |-> Df(MaxBars, F(100, 1), <<F(105, 1), F(100, 1)>>, F(2, 1), F(30, 1))],
         [k \in Keys |-> IF k[2] = "swing"
                         THEN Df(MaxBars, F(50, 1), <<F(49, 1), F(51, 1)>>, F(2, 1), F(30, 1))
                         ELSE NoDf],
         [k \in Keys |-> NoDf],
         [k \in Keys |-> IF k[2] = "swing"
                         THEN Df(MaxBars, F(100, 1), <<F(100, 1), F(100, 1)>>, F(2, 1), F(5, 1))
                         ELSE Df(MaxBars, F(183, 10), <<F(49, 1), F(51, 1)>>, F(1, 10), F(30, 1))],
         [k \in Keys |-> Df(MaxBars, F(0, 1), <<F(105, 1), F(100, 1)>>, F(2, 1), F(30, 1))]}

RECURSIVE gerar_sinais_loop(_, _, _, _, _)
\* The loop of gerar_sinais from COINS[i] on, with the lists sw and po built
\* so far, then the sorted payload; an exception ends the run.
gerar_sinais_loop(i, sw, po, market, ts) ==
    IF i > Len(COINS)
    THEN [kind |-> "dict", generated_at |-> ts,
          swing |-> SortedByPar(sw), posicional |-> SortedByPar(po)]
    ELSE LET rs == gerar_sinais_half(COINS[i], market[<<COINS[i], "swing">>], "swing", ts)
             rp == gerar_sinais_half(COINS[i], market[<<COINS[i], "posicional">>],
                                     "posicional", ts)
         IN  IF rs.kind = "raise" THEN [kind |-> "raise"]
             ELSE IF rp.kind = "raise" THEN [kind |-> "raise"]
             ELSE gerar_sinais_loop(
                      i + 1,
                      IF rs.kind = "SinalEntrada" THEN Append(sw, rs.value) ELSE sw,
                      IF rp.kind = "SinalEntrada" THEN Append(po, rp.value) ELSE po,
                      market, ts)

\* gerar_sinais as one step, at clock reading ts.
gerar_sinais(market, ts) == gerar_sinais_loop(1, <<>>, <<>>, market, ts)

\* What gerar_sinais returns or raises in the runs of the worker.
WorkerRuns == {gerar_sinais(market, 0) : market \in FileMarkets}

\* main: a run of the worker starts (the first, or the next one after a run
\* that ended) and gerar_sinais returns the payload or raises.
main_gerar_sinais ==
    /\ w_pc \in {"main", "finalizado", "raised"}
    /\ \E r \in WorkerRuns :
        /\ w_pc' = IF r.kind = "raise" THEN "raised" ELSE "salvar_json"
        /\ w_payload' = IF r.kind = "raise" THEN NoPayload ELSE r
    /\ UNCHANGED <<engineVars, now, batchVars, fetchVars, files, p_pc, p_payload, observed>>

\* salvar_json: open(tmp_path, "w") creates or empties the temporary file,
\* or raises.
salvar_json_open ==
    /\ w_pc = "salvar_json"
    /\ \/ /\ files' = [files EXCEPT ![W_tmp_path] = Truncated]
          /\ w_pc' = "dump"
          /\ UNCHANGED w_payload
       \/ /\ w_pc' = "raised"
          /\ w_payload' = NoPayload
          /\ UNCHANGED files
    /\ UNCHANGED <<engineVars, now, batchVars, fetchVars, p_pc, p_payload, observed>>

\* salvar_json: json.dump writes the next piece of the payload, or raises
\* and leaves the temporary file as it is.
salvar_json_dump ==
    /\ w_pc = "dump"
    /\ \/ /\ files' = [files EXCEPT ![W_tmp_path] = Written(files[W_tmp_path], w_payload)]
          /\ w_pc' = IF files[W_tmp_path].written + 1 = MaxChunks THEN "replace" ELSE "dump"
          /\ UNCHANGED w_payload
       \/ /\ w_pc' = "raised"
          /\ w_payload' = NoPayload
          /\ UNCHANGED files
    /\ UNCHANGED <<engineVars, now, batchVars, fetchVars, p_pc, p_payload, observed>>

\* salvar_json: os.replace(tmp_path, ENTRADA_JSON_PATH), or it raises.
salvar_json_replace ==
    /\ w_pc = "replace"
    /\ \/ /\ files' = os_replace(files, W_tmp_path, ENTRADA_JSON_PATH)
          /\ w_pc' = "finalizado"
          /\ w_payload' = NoPayload
       \/ /\ w_pc' = "raised"
          /\ w_payload' = NoPayload
          /\ UNCHANGED files
    /\ UNCHANGED <<engineVars, now, batchVars, fetchVars, p_pc, p_payload, observed>>

\* main_loop: entrada.json is read; a missing file or one that does not
\* parse is logged and the loop sleeps.
main_loop_read ==
    /\ p_pc = "read"
    /\ IF Complete(files[ENTRADA_JSON_PATH])
       THEN /\ p_payload' = files[ENTRADA_JSON_PATH].data
            /\ p_pc' = "fetch"
       ELSE /\ p_payload' = NoPayload
            /\ p_pc' = "Erro ao ler"
    /\ UNCHANGED <<engineVars, now, batchVars, fetchVars, files, w_pc, w_payload, observed>>

\* The coins present in the payload.
P_coins(payload_in) ==
    ({payload_in.swing[i].par : i \in DOMAIN payload_in.swing}
        \cup {payload_in.posicional[i].par : i \in DOMAIN payload_in.posicional})
        \ {""}

\* The price maps fetch_prices returns for the coins: every coin has a
\* price, or every ticker failed.
FilePriceMaps(coins) == {[c \in D |-> F(101, 1)] : D \in {{}, coins}}

\* main_loop: the coins are collected, their prices fetched and the payload
\* updated; without coins or without prices the loop sleeps.
main_loop_fetch ==
    /\ p_pc = "fetch"
    /\ IF P_coins(p_payload) = {}
       THEN /\ p_pc' = "Nenhuma moeda"
            /\ UNCHANGED <<p_payload, now>>
       ELSE \E prices \in FilePriceMaps(P_coins(p_payload)) :
                IF DOMAIN prices = {}
                THEN /\ p_pc' = "Nenhum preco"
                     /\ UNCHANGED <<p_payload, now>>
                ELSE /\ p_payload' = update_payload_with_prices(p_payload, prices, now)
                     /\ p_pc' = "open"
                     /\ UNCHANGED now
    /\ UNCHANGED <<engineVars, batchVars, fetchVars, files, w_pc, w_payload, observed>>

\* main_loop: open(tmp_path, "w"), or it raises.
main_loop_open ==
    /\ p_pc = "open"
    /\ \/ /\ files' = [files EXCEPT ![P_tmp_path] = Truncated]
          /\ p_pc' = "dump"
       \/ /\ p_pc' = "Erro ao gravar"
          /\ UNCHANGED files
    /\ UNCHANGED <<engineVars, now, batchVars, fetchVars, w_pc, w_payload, p_payload, observed>>

\* main_loop: json.dump writes the next piece, or raises.
main_loop_dump ==
    /\ p_pc = "dump"
    /\ \/ /\ files' = [files EXCEPT ![P_tmp_path] = Written(files[P_tmp_path], p_payload)]
          /\ p_pc' = IF files[P_tmp_path].written + 1 = MaxChunks THEN "replace" ELSE "dump"
       \/ /\ p_pc' = "Erro ao gravar"
          /\ UNCHANGED files
    /\ UNCHANGED <<engineVars, now, batchVars, fetchVars, w_pc, w_payload, p_payload, observed>>

\* main_loop: os.replace(tmp_path, ENTRADA_JSON_PATH), or it raises.
main_loop_replace ==
    /\ p_pc = "replace"
    /\ \/ /\ files' = os_replace(files, P_tmp_path, ENTRADA_JSON_PATH)
          /\ p_pc' = "Atualizado"
       \/ /\ p_pc' = "Erro ao gravar"
          /\ UNCHANGED files
    /\ UNCHANGED <<engineVars, now, batchVars, fetchVars, w_pc, w_payload, p_payload, observed>>

\* main_loop: time.sleep(5), then the next round, which reads payload anew.
main_loop_sleep ==
    /\ p_pc \in {"Erro ao ler", "Nenhuma moeda", "Nenhum preco", "Atualizado", "Erro ao gravar"}
    /\ p_pc' = "read"
    /\ p_payload' = NoPayload
    /\ UNCHANGED <<engineVars, now, batchVars, fetchVars, files, w_pc, w_payload, observed>>

\* The panel reads entrada.json as it is at that moment.
painel_read ==
    /\ files[ENTRADA_JSON_PATH].exists
    /\ observed' = files[ENTRADA_JSON_PATH]
    /\ UNCHANGED <<engineVars, now, batchVars, fetchVars, files, w_pc, w_payload, p_pc,
                   p_payload>>

NextFile ==
    \/ main_gerar_sinais
    \/ salvar_json_open
    \/ salvar_json_dump
    \/ salvar_json_replace
    \/ main_loop_read
    \/ main_loop_fetch
    \/ main_loop_open
    \/ main_loop_dump
    \/ main_loop_replace
    \/ main_loop_sleep
    \/ painel_read

SpecFile == Init /\ [][NextFile]_vars

\* ------------------------------------------------------------------------
\* Properties
\* ------------------------------------------------------------------------

CalledA == op = "analisar_sinal"

CalledW == op = "calcular_sinal_para_df"

CalledI == op = "calcular_indicadores"

CalledD == op = "decidir_sinal"

\* The call assigned a direction (it got past its input checks).
Directed == (CalledA \/ CalledW) /\ "frame" \in DOMAIN ret

\* The call evaluated gain and confidence and went through the filter.
Evaluated == Directed /\ ret.kind # "raise"

\* The indicator values the call worked on.
Ind == IF CalledA THEN args.indicadores
       ELSE [preco |-> args.df.close, ema_fast |-> args.df.ema_fast,
             ema_slow |-> args.df.ema_slow, atr |-> args.df.atr, adx |-> args.df.adx]

Published == (CalledA /\ ret.kind = "dict") \/ (CalledW /\ ret.kind = "SinalEntrada")

Clamp(x, lo, hi) == IF FLt(x, lo) THEN lo ELSE IF FGt(x, hi) THEN hi ELSE x

\* The signals gerar_sinais holds or has returned.
BatchSignals(modo) ==
    LET lista == IF modo = "swing" THEN swing ELSE posicional
        out == IF payload.kind = "dict"
               THEN (IF modo = "swing" THEN payload.swing ELSE payload.posicional)
               ELSE <<>>
    IN  {lista[i] : i \in DOMAIN lista} \cup {out[i] : i \in DOMAIN out}

\* C1 as stated: the direction is LONG iff ema_fast > ema_slow, SHORT iff
\* ema_fast < ema_slow, and NONE when the two are equal.
C1_Original ==
    Directed =>
        /\ (ret.frame.sinal = "LONG") <=> FGt(Ind.ema_fast, Ind.ema_slow)
        /\ (ret.frame.sinal = "SHORT") <=> FLt(Ind.ema_fast, Ind.ema_slow)
        /\ (Ind.ema_fast = Ind.ema_slow) => ret.frame.sinal = "NONE"

\* C1 amended: analisar_sinal and calcular_sinal_para_df give LONG iff
\* ema_fast > ema_slow and SHORT otherwise, equal EMAs included; they never
\* give NONE.
C1_Amended ==
    Directed =>
        /\ ret.frame.sinal \in {"LONG", "SHORT"}
        /\ (ret.frame.sinal = "LONG") <=> FGt(Ind.ema_fast, Ind.ema_slow)
        /\ (ret.frame.sinal = "SHORT") <=> FLe(Ind.ema_fast, Ind.ema_slow)

\* A SHORT published by analisar_sinal for equal EMAs.
C1_Witness ==
    /\ CalledA
    /\ ret.kind = "dict"
    /\ Ind.ema_fast = Ind.ema_slow
    /\ ret.value.sinal = "SHORT"

\* The evaluation fails the minimum filter: its gain is below 3.0 or its
\* confidence below 65.0.
FailsFilter ==
    Evaluated /\ (\/ FLt(ret.frame.ganho_pct_real, F(3, 1))
                  \/ FLt(ret.frame.assert_pct, F(65, 1)))

\* decidir_sinal found a direction and rejected it for gain or confidence.
RejectedD ==
    CalledD /\ ret.kind = "dict" /\ ret.side # "NAO_ENTRAR" /\ ret.value.SIDE = "NAO ENTRAR"

\* C2 as stated: an evaluation that fails the filter is still in the output,
\* as a "no entry" record with its price, target, gain and confidence; the
\* pair is never omitted.
C2_Original ==
    /\ FailsFilter => ret.kind # "None"
    /\ \A i \in DOMAIN logs :
        logs[i][3] = "filtrado" /\ pc = "returned" =>
            \E s \in BatchSignals(logs[i][2]) : s.par = logs[i][1]

\* C2 amended: an evaluation that fails the filter makes analisar_sinal and
\* calcular_sinal_para_df return None, and gerar_sinais leaves the pair out of
\* that mode's list (a log line is all that records it); only decidir_sinal
\* keeps it, as a "NAO ENTRAR" record with entry price, target, gain and
\* confidence.
C2_Amended ==
    /\ FailsFilter => ret.kind = "None"
    /\ \A i \in DOMAIN logs :
        logs[i][3] = "filtrado" =>
            ~ \E s \in BatchSignals(logs[i][2]) : s.par = logs[i][1]
    /\ RejectedD =>
        /\ ret.value.SITUACAO = "Reprovado por filtros"
        /\ ret.value.ENTRADA = FRound(args.last.close, 3)
        /\ ret.value.ALVO # ret.value.ENTRADA
        /\ FLe(ret.value.PNL_PCT, F(3, 1))
        /\ ret.value.ASSERTIVIDADE_PCT = F(70, 1)

\* gerar_sinais has returned; a coin was filtered in swing and is in neither
\* the swing list nor the payload, while another coin's swing signal is.
C2_Witness ==
    /\ pc = "returned"
    /\ \E i \in DOMAIN logs :
        /\ logs[i][3] = "filtrado"
        /\ logs[i][2] = "swing"
        /\ ~ \E s \in BatchSignals("swing") : s.par = logs[i][1]
    /\ payload.swing # <<>>

\* C3: every published LONG or SHORT signal has gain >= 3.0 and confidence
\* >= 65.0 (analisar_sinal, calcular_sinal_para_df, decidir_sinal, and the
\* lists of gerar_sinais).
C3_MinimumsHold ==
    /\ Published =>
        /\ ret.value.sinal \in {"LONG", "SHORT"}
        /\ FGe(ret.value.ganho_pct, F(3, 1))
        /\ FGe(ret.value.assert_pct, F(65, 1))
        /\ FGe(ret.frame.ganho_pct_real, F(3, 1))
        /\ FGe(ret.frame.assert_pct, F(65, 1))
    /\ (CalledD /\ ret.kind = "dict" /\ ret.value.SIDE \in {"LONG", "SHORT"}) =>
        /\ FGe(ret.value.PNL_PCT, F(3, 1))
        /\ FGe(ret.value.ASSERTIVIDADE_PCT, F(65, 1))
    /\ \A modo \in Modos : \A s \in BatchSignals(modo) :
        /\ s.sinal \in {"LONG", "SHORT"}
        /\ FGe(s.ganho_pct, F(3, 1))
        /\ FGe(s.assert_pct, F(65, 1))

\* calcular_sinal_para_df publishes a signal whose confidence is exactly 65.
C3_Witness ==
    /\ CalledW
    /\ ret.kind = "SinalEntrada"
    /\ ret.value.assert_pct = F(65, 1)
    /\ ret.value.ganho_pct = F(3, 1)

\* Every signal gerar_sinais holds or has returned, of both modes.
AllBatchSignals == BatchSignals("swing") \cup BatchSignals("posicional")

InBand(x) == FGe(x, F(60, 1)) /\ FLe(x, F(90, 1))

\* C4: the confidence of every evaluation of analisar_sinal and
\* calcular_sinal_para_df lies within [60, 90], whatever the ADX and the mode;
\* so does the confidence of every signal they publish.
C4_ConfidenceInBand ==
    /\ Evaluated => InBand(ret.frame.assert_pct)
    /\ Published => InBand(ret.value.assert_pct)
    /\ \A s \in AllBatchSignals : InBand(s.assert_pct)

\* analisar_sinal, positional, aligned, ADX 100: 72 + 20 + 10 is cut to 90.
C4_Witness ==
    /\ CalledA
    /\ Evaluated
    /\ args.modo = "posicional"
    /\ Ind.adx = F(100, 1)
    /\ FGt(Ind.ema_fast, Ind.ema_slow)
    /\ ret.frame.assert_pct = F(90, 1)

\* decidir_sinal returned the record of a row without direction.
NoEntryD ==
    /\ ret.kind = "dict"
    /\ ret.value.SIDE = "NAO ENTRAR"
    /\ ret.value.SITUACAO = "Fora dos filtros"
    /\ ret.value.ASSERTIVIDADE_PCT = FZero
    /\ ret.value.ENTRADA = FRound(args.last.close, 3)
    /\ ret.value.ALVO = ret.value.ENTRADA
    /\ ret.value.PNL_PCT = FZero

\* C5 as stated: with direction NONE, in particular with equal EMAs, the
\* result is a "no entry" signal with confidence 0, target = price, gain 0.
C5_Original ==
    /\ (CalledD /\ args.last.ema_fast = args.last.ema_slow) => NoEntryD
    /\ (CalledA /\ Evaluated /\ Ind.ema_fast = Ind.ema_slow) =>
        /\ ret.kind # "dict"
        /\ ret.frame.assert_pct = FZero
        /\ ret.frame.alvo = Ind.preco
        /\ ret.frame.ganho_pct_real = FZero

\* C5 amended: in decidir_sinal a row without direction (NAO_ENTRAR), in
\* particular one with equal EMAs, gives a "NAO ENTRAR" record with
\* confidence 0, target = entry price and gain 0, whatever ATR, ADX and DI;
\* analisar_sinal has no NONE direction and evaluates equal EMAs as a SHORT
\* with raw gain >= 3, a target away from the price and confidence >= 60.
C5_Amended ==
    /\ (CalledD /\ (args.last.ema_fast = args.last.ema_slow \/ ret.side = "NAO_ENTRAR")) =>
        NoEntryD
    /\ (CalledA /\ Evaluated /\ Ind.ema_fast = Ind.ema_slow) =>
        /\ ret.frame.sinal = "SHORT"
        /\ FGe(ret.frame.ganho_pct_raw, F(3, 1))
        /\ ret.frame.alvo # Ind.preco
        /\ FGe(ret.frame.assert_pct, F(60, 1))

\* decidir_sinal on equal EMAs with ADX 30 and +DI above -DI: no entry.
C5_Witness ==
    /\ CalledD
    /\ args.last.ema_fast = args.last.ema_slow
    /\ args.last.adx = F(30, 1)
    /\ FGt(args.last.pdi, args.last.mdi)
    /\ NoEntryD

\* C6: atr_pct = 100*atr/price clamped to [0.5, 15]; raw gain = atr_pct *
\* multiplier (1.2 swing, 2.0 positional) clamped to [3, 30]; target =
\* price*(1 + raw/100) for LONG and price*(1 - raw/100) for SHORT.  Price 100,
\* ATR 2, swing, LONG gives target 103.0; price 50, ATR 0.1, SHORT gives raw
\* gain 3.0.
C6_Projection ==
    /\ Evaluated =>
        LET f == ret.frame
            mult == IF args.modo = "swing" THEN F(12, 10) ELSE F(2, 1)
            step == FDiv(f.ganho_pct_raw, F(100, 1))
        IN  /\ f.atr_pct = Clamp(FMul(FDiv(Ind.atr, Ind.preco), F(100, 1)), F(5, 10), F(15, 1))
            /\ f.ganho_pct_raw = Clamp(FMul(f.atr_pct, mult), F(3, 1), F(30, 1))
            /\ f.sinal = "LONG" => f.alvo = FMul(Ind.preco, FAdd(F(1, 1), step))
            /\ f.sinal = "SHORT" => f.alvo = FMul(Ind.preco, FSub(F(1, 1), step))
    /\ (Evaluated /\ Ind.preco = F(100, 1) /\ Ind.atr = F(2, 1) /\ args.modo = "swing"
            /\ FGt(Ind.ema_fast, Ind.ema_slow)) =>
        /\ ret.frame.alvo = F(103, 1)
        /\ Published /\ ret.value.alvo = F(103, 1)
    /\ (Evaluated /\ Ind.preco = F(50, 1) /\ Ind.atr = F(1, 10) /\ args.modo = "swing"
            /\ FLt(Ind.ema_fast, Ind.ema_slow)) =>
        ret.frame.ganho_pct_raw = F(3, 1)

\* analisar_sinal publishes target 103.0 for price 100, ATR 2, swing, LONG.
C6_Witness ==
    /\ CalledA
    /\ ret.kind = "dict"
    /\ Ind.preco = F(100, 1)
    /\ Ind.atr = F(2, 1)
    /\ args.modo = "swing"
    /\ ret.value.sinal = "LONG"
    /\ ret.value.alvo = F(103, 1)

\* C7: for price > 0 the gain recomputed from target, price and direction
\* equals the gain definition ((target/price - 1)*100 for LONG, (1 -
\* target/price)*100 for SHORT) and the clamped raw gain that made the
\* target, and the filter and the published signal use that value.
C7_Claim ==
    (CalledA /\ Evaluated /\ FGt(Ind.preco, FZero)) =>
        LET f == ret.frame
            ratio == FDiv(f.alvo, Ind.preco)
        IN  /\ f.ganho_pct_real = f.ganho_pct_raw
            /\ f.sinal = "LONG" => f.ganho_pct_real = FMul(FSub(ratio, F(1, 1)), F(100, 1))
            /\ f.sinal = "SHORT" => f.ganho_pct_real = FMul(FSub(F(1, 1), ratio), F(100, 1))
            /\ (ret.kind = "None") <=> (FLt(f.ganho_pct_raw, F(3, 1)) \/ FLt(f.assert_pct, F(65, 1)))
            /\ ret.kind = "dict" => ret.value.ganho_pct = FRound(f.ganho_pct_raw, 2)

\* base + 20*clamp((adx - 10)/40, 0, 1) + 10*alignment, clamped to [60, 90].
Score(base, adx, alignment) ==
    LET trend == Clamp(FDiv(FSub(adx, F(10, 1)), F(40, 1)), FZero, F(1, 1))
    IN  Clamp(FAdd(FAdd(base, FMul(F(20, 1), trend)), FMul(F(10, 1), alignment)),
              F(60, 1), F(90, 1))

\* Scenario inputs: price 100, ATR 2, swing, ema_fast > ema_slow, the given ADX.
ScenarioSwing(adx) ==
    /\ Evaluated
    /\ args.modo = "swing"
    /\ Ind.preco = F(100, 1)
    /\ Ind.atr = F(2, 1)
    /\ FGt(Ind.ema_fast, Ind.ema_slow)
    /\ Ind.adx = adx

\* C8 as stated: confidence = base + 20*clamp((adx-10)/40, 0, 1) +
\* 10*alignment, clamped, with base 68 for swing and 72 for positional; swing
\* with ema_fast > ema_slow gives 88 at ADX 30 and 78 at ADX 5, both published.
C8_Original ==
    /\ Evaluated =>
        ret.frame.assert_pct =
            Score(IF args.modo = "swing" THEN F(68, 1) ELSE F(72, 1), Ind.adx,
                  ret.frame.align_score)
    /\ ScenarioSwing(F(30, 1)) => Published /\ ret.value.assert_pct = F(88, 1)
    /\ ScenarioSwing(F(5, 1)) => Published /\ ret.value.assert_pct = F(78, 1)

\* C8 amended: the formula holds with base 68 (swing) and 72 (positional) in
\* analisar_sinal, and with base 55 for both modes in calcular_sinal_para_df;
\* swing with ema_fast > ema_slow gives 88 at ADX 30 and 78 at ADX 5 in
\* analisar_sinal, 75 and 65 in calcular_sinal_para_df, all published.
C8_Amended ==
    /\ Evaluated =>
        ret.frame.assert_pct =
            Score(IF CalledW THEN F(55, 1)
                  ELSE IF args.modo = "swing" THEN F(68, 1) ELSE F(72, 1),
                  Ind.adx, ret.frame.align_score)
    /\ ScenarioSwing(F(30, 1)) =>
        Published /\ ret.value.assert_pct = (IF CalledA THEN F(88, 1) ELSE F(75, 1))
    /\ ScenarioSwing(F(5, 1)) =>
        Published /\ ret.value.assert_pct = (IF CalledA THEN F(78, 1) ELSE F(65, 1))

\* analisar_sinal publishes confidence 78 for the swing scenario at ADX 5.
C8_Witness ==
    /\ CalledA
    /\ ScenarioSwing(F(5, 1))
    /\ ret.kind = "dict"
    /\ ret.value.assert_pct = F(78, 1)

\* C9 as stated: the alignment term is 1.0 for every evaluation that yields
\* LONG or SHORT, equal EMAs included.
C9_Original ==
    (Evaluated /\ ret.frame.sinal \in {"LONG", "SHORT"}) =>
        ret.frame.align_score = F(1, 1)

\* C9 amended: the alignment term is 1.0 when ema_fast differs from ema_slow
\* and 0.0 when they are equal, where the direction assigned is SHORT.
C9_Amended ==
    Evaluated =>
        /\ Ind.ema_fast # Ind.ema_slow => ret.frame.align_score = F(1, 1)
        /\ Ind.ema_fast = Ind.ema_slow =>
            ret.frame.sinal = "SHORT" /\ ret.frame.align_score = FZero

\* calcular_sinal_para_df publishes a SHORT for equal EMAs, without the bonus.
C9_Witness ==
    /\ CalledW
    /\ ret.kind = "SinalEntrada"
    /\ Ind.ema_fast = Ind.ema_slow
    /\ ret.value.sinal = "SHORT"
    /\ ret.frame.align_score = FZero

MaxOf(S) == CHOOSE m \in S : \A x \in S : m >= x

\* The call ended in a skip for lack of candles: no signal, no exception.
SkippedForLength ==
    /\ CalledI \/ CalledW
    /\ ret.kind = "None"
    /\ ret.log \in {"Poucos candles", "poucos candles"}

\* max(slow, atr, adx) + 5, the periods of
\* calcular_sinal_para_df being 21, 14, 14.
NeededBars ==
    IF CalledI THEN MaxOf({args.janela_ema_lenta, args.janela_atr, args.janela_adx}) + 5
    ELSE MaxOf({21, 14, 14}) + 5

NonFinite(df) == \E x \in {df.close, df.ema_fast, df.ema_slow, df.atr, df.adx} : x = NaN

\* C10 as stated: an evaluation is skipped for lack of candles exactly when
\* the series has fewer than max(slow, atr, adx) + 5 bars; with periods
\* (21, 14, 14), 21 bars are rejected and 26 accepted.
C10_Original ==
    (CalledI \/ CalledW) =>
        /\ SkippedForLength <=> args.df.shape0 < NeededBars
        /\ (NeededBars = 26 /\ args.df.shape0 = 26 /\ ~NonFinite(args.df)) =>
            ret.kind # "None" \/ ret.log = "filtrado"

\* C10 amended: calcular_indicadores skips for lack of candles exactly when
\* the series has fewer than max(slow, atr, adx) + 5 bars (with periods
\* (21, 14, 14), 21 bars are rejected and 26 accepted, the indicator values
\* being finite); calcular_sinal_para_df does so exactly when the series has
\* fewer than 60 bars.
C10_Amended ==
    /\ CalledI =>
        /\ SkippedForLength <=> args.df.shape0 < NeededBars
        /\ (NeededBars = 26 /\ args.df.shape0 = 21) => SkippedForLength
        /\ (NeededBars = 26 /\ args.df.shape0 = 26 /\ ~NonFinite(args.df)) =>
            ret.kind = "dict"
    /\ CalledW =>
        /\ SkippedForLength <=> args.df.shape0 < 60
        /\ (args.df.shape0 >= 60 /\ ~NonFinite(args.df)) => Directed

\* calcular_indicadores accepts 26 bars with the default periods.
C10_Witness ==
    /\ CalledI
    /\ args.janela_ema_lenta = 21 /\ args.janela_atr = 14 /\ args.janela_adx = 14
    /\ args.df.shape0 = 26
    /\ ret.kind = "dict"

\* The evaluation worked on finite values of which the price or the ATR is
\* not positive.
InvalidPriceOrVolatility ==
    /\ CalledA \/ CalledW
    /\ ~CalledW \/ args.df.shape0 >= W_MIN_CANDLES
    /\ \A x \in {Ind.preco, Ind.ema_fast, Ind.ema_slow, Ind.atr, Ind.adx} : IsFinite(x)
    /\ FLe(Ind.preco, FZero) \/ FLe(Ind.atr, FZero)

\* C11: an evaluation with price <= 0 or ATR <= 0 ends as a skip -- no
\* exception, no signal -- in analisar_sinal, in calcular_sinal_para_df and in
\* the run of gerar_sinais, so that no published signal has a non-positive
\* price.
C11_Claim ==
    /\ InvalidPriceOrVolatility => ret.kind = "None"
    /\ Published => FGt(Ind.preco, FZero) /\ FGt(Ind.atr, FZero)
    /\ pc # "raised"
    /\ \A s \in AllBatchSignals : FGt(s.preco, FZero)

\* C12: if one of the last-bar values price, ema_fast, ema_slow, atr, adx is
\* not finite, calcular_indicadores returns no indicator set and
\* calcular_sinal_para_df no signal, and gerar_sinais lists nothing for the
\* pair; an indicator set that is returned has five finite fields.
C12_NonFiniteSkipped ==
    /\ ((CalledI \/ CalledW) /\ NonFinite(args.df)) => ret.kind = "None"
    /\ (CalledI /\ ret.kind = "dict") =>
        \A x \in {ret.value.preco, ret.value.ema_fast, ret.value.ema_slow,
                  ret.value.atr, ret.value.adx} : IsFinite(x)
    /\ (CalledW /\ args.df.shape0 >= W_MIN_CANDLES /\ NonFinite(args.df)) =>
        ret.log = "valores nao finitos"
    /\ \A i \in DOMAIN logs :
        logs[i][3] = "valores nao finitos" =>
            ~ \E s \in BatchSignals(logs[i][2]) : s.par = logs[i][1]

\* calcular_indicadores refuses a long enough frame whose ADX alone is not
\* finite.
C12_Witness ==
    /\ CalledI
    /\ args.df.shape0 = MaxBars
    /\ args.df.adx = NaN
    /\ \A x \in {args.df.close, args.df.ema_fast, args.df.ema_slow, args.df.atr} :
        IsFinite(x)
    /\ ret.kind = "None"
    /\ ret.log = "valores nao finitos"

\* C13: in a run of gerar_sinais a pair/mode evaluation that fails (no
\* candles, too few candles, a non-finite indicator, an invalid price) does not
\* keep the remaining ones from being evaluated: the run never ends in an
\* exception, and when it returns every coin has been through both modes,
\* each half having left either a signal or a log line.
C13_Claim ==
    /\ pc # "raised"
    /\ pc = "returned" =>
        /\ payload.kind = "dict"
        /\ \A c \in 1..Len(COINS) : \A modo \in Modos :
            \/ \E s \in BatchSignals(modo) : s.par = COINS[c]
            \/ \E i \in DOMAIN logs : logs[i][1] = COINS[c] /\ logs[i][2] = modo

\* C16: get_ohlcv asks KuCoin, Gate.io, OKX in this order; it returns the
\* candles of the first exchange that answers with a non-empty list, having
\* asked no exchange after it; it returns None exactly when all three failed
\* (by exception or empty list).
C16_ProviderOrder ==
    op = "get_ohlcv" =>
        /\ contacted = SubSeq(<<"kucoin", "gateio", "okx">>, 1, Len(contacted))
        /\ \A i \in DOMAIN errors : errors[i][1] = contacted[i]
        /\ ret.kind = "DataFrame" =>
            /\ contacted # <<>>
            /\ ret.de = contacted[Len(contacted)]
            /\ ret.shape0 > 0
            /\ Len(errors) = Len(contacted) - 1
        /\ ret.kind = "None" => Len(errors) = 3 /\ Len(contacted) = 3
        /\ (ret = Idle /\ ~ENABLED get_ohlcv_try) => Len(errors) = 3
        /\ Len(errors) = 3 => ret.kind \in {"idle", "None"}

\* OKX's candles are returned after KuCoin raised and Gate.io answered with
\* an empty list.
C16_Witness ==
    /\ op = "get_ohlcv"
    /\ ret.kind = "DataFrame"
    /\ ret.de = "okx"
    /\ errors = <<<<"kucoin", "raise">>, <<"gateio", "Lista OHLCV vazia">>>>

CalledT == op = "calcular_alvos_profissionais"

\* The side is LONG (SHORT), in whatever letter case.
SideIs(side, nome) ==
    \/ side = nome
    \/ nome = "LONG" /\ side = "long"
    \/ nome = "SHORT" /\ side = "Short"

\* C17: calcular_alvos_profissionais returns (None, None, None) when the ATR
\* is None, when the entry price is <= 0 or when the side is neither LONG nor
\* SHORT; otherwise entry + r*ATR (LONG) or entry - r*ATR (SHORT) for r =
\* 0.618, 1.000, 1.618; for ATR >= 0 the targets are ordered away from the
\* entry: a1 <= a2 <= a3 for LONG, a1 >= a2 >= a3 for SHORT.
C17_Targets ==
    CalledT =>
        LET side == args.side
            e == args.preco_entrada
            atr == args.atr
            r == <<F(618, 1000), F(1, 1), F(1618, 1000)>>
        IN  IF \/ atr = None
               \/ FLe(e, FZero)
               \/ ~(SideIs(side, "LONG") \/ SideIs(side, "SHORT"))
            THEN ret = <<None, None, None>>
            ELSE /\ SideIs(side, "LONG") =>
                    /\ \A i \in 1..3 : ret[i] = FAdd(e, FMul(r[i], atr))
                    /\ FGe(atr, FZero) => FLe(e, ret[1]) /\ FLe(ret[1], ret[2]) /\ FLe(ret[2], ret[3])
                 /\ SideIs(side, "SHORT") =>
                    /\ \A i \in 1..3 : ret[i] = FSub(e, FMul(r[i], atr))
                    /\ FGe(atr, FZero) => FGe(e, ret[1]) /\ FGe(ret[1], ret[2]) /\ FGe(ret[2], ret[3])

\* A SHORT entered at 100 with ATR 2: the second target is 98, the first
\* above it, the third below it.
C17_Witness ==
    /\ CalledT
    /\ args.side = "SHORT"
    /\ args.preco_entrada = F(100, 1)
    /\ args.atr = F(2, 1)
    /\ ret[2] = F(98, 1)
    /\ FGt(ret[1], ret[2])
    /\ FGt(ret[2], ret[3])

\* C18: filtros_direcao gives LONG only if adx >= 20, ema_fast > ema_slow and
\* +DI > -DI, SHORT only if adx >= 20, ema_fast < ema_slow and +DI < -DI, and
\* NAO_ENTRAR in every other case (ADX below 20, equal EMAs, EMA and DI
\* disagreeing); decidir_sinal then reports SIDE "NAO ENTRAR" with ALVO =
\* ENTRADA, PNL_PCT = 0 and ASSERTIVIDADE_PCT = 0.
C18_Direction ==
    CalledD =>
        LET last == args.last
            strong == FGe(last.adx, F(20, 1))
            up == strong /\ FGt(last.ema_fast, last.ema_slow) /\ FGt(last.pdi, last.mdi)
            down == strong /\ FLt(last.ema_fast, last.ema_slow) /\ FLt(last.pdi, last.mdi)
        IN  /\ ret.side = "LONG" <=> up
            /\ ret.side = "SHORT" <=> down
            /\ ret.side = "NAO_ENTRAR" <=> ~(up \/ down)
            /\ ret.side = "NAO_ENTRAR" => NoEntryD

\* ADX 30 with ema_fast above ema_slow but +DI below -DI: no entry.
C18_Witness ==
    /\ CalledD
    /\ args.last.adx = F(30, 1)
    /\ FGt(args.last.ema_fast, args.last.ema_slow)
    /\ FLt(args.last.pdi, args.last.mdi)
    /\ ret.side = "NAO_ENTRAR"
    /\ NoEntryD

CalledR == op = "recalc_gain_for_signal"

\* C19: recalc_gain_for_signal returns the original gain unchanged when the
\* signal is neither LONG nor SHORT or when alvo <= 0 or preco_atual <= 0;
\* only for LONG or SHORT with positive price and target does it return a
\* recomputed gain ((alvo/preco - 1)*100 for LONG, (preco/alvo - 1)*100 for
\* SHORT).
C19_GainKept ==
    CalledR =>
        LET a == args
        IN  IF \/ a.sinal \notin {"LONG", "SHORT"}
               \/ FLe(a.alvo, FZero)
               \/ FLe(a.preco_atual, FZero)
            THEN ret = a.ganho_original
            ELSE ret = (IF a.sinal = "LONG"
                        THEN FMul(FSub(FDiv(a.alvo, a.preco_atual), F(1, 1)), F(100, 1))
                        ELSE FMul(FSub(FDiv(a.preco_atual, a.alvo), F(1, 1)), F(100, 1)))

\* "NAO ENTRAR" with price 100 and target 97 keeps its gain of 12.5.
C19_Witness ==
    /\ CalledR
    /\ args.sinal = "NAO ENTRAR"
    /\ args.preco_atual = F(100, 1)
    /\ args.alvo = F(97, 1)
    /\ args.ganho_original = F(125, 10)
    /\ ret = F(125, 10)

CalledU == op = "update_payload_with_prices"

\* The pair has a non-zero price in the price map.
Priced(prices, par) == par \in DOMAIN prices /\ prices[par] # FZero

\* The entry after is the entry before but for preco and ganho_pct; without a
\* price for the pair it is the entry before.
EntryFrame(before, after, prices) ==
    /\ DOMAIN after = DOMAIN before
    /\ \A f \in {"par", "sinal", "alvo", "assert_pct", "data", "hora"} : after[f] = before[f]
    /\ ~Priced(prices, before.par) => after = before
    /\ Priced(prices, before.par) => after.preco = FRound(prices[before.par], 3)

\* C20: update_payload_with_prices changes, in the lists swing and
\* posicional, only preco and ganho_pct of the entries whose par has a
\* non-zero price in the price map; sinal, alvo, assert_pct, data, hora and
\* the set and order of the entries stay, an entry without price stays as it
\* is, and generated_at is set to the clock reading.
C20_Frame ==
    CalledU =>
        /\ DOMAIN ret = DOMAIN args.payload
        /\ \A lista \in {"swing", "posicional"} :
            /\ Len(ret[lista]) = Len(args.payload[lista])
            /\ \A i \in DOMAIN ret[lista] :
                EntryFrame(args.payload[lista][i], ret[lista][i], args.prices)
        /\ ret.generated_at = now
        /\ ret.generated_at # args.payload.generated_at

\* Two swing entries: AAVE is priced at 101 and gets price and gain anew, ADA
\* has price 0.0 and stays as it was; the payload is stamped.
C20_Witness ==
    /\ CalledU
    /\ Len(args.payload.swing) = 2
    /\ args.payload.swing[1].par = "AAVE"
    /\ args.payload.swing[2].par = "ADA"
    /\ "AAVE" \in DOMAIN args.prices /\ args.prices["AAVE"] = F(101, 1)
    /\ "ADA" \in DOMAIN args.prices /\ args.prices["ADA"] = FZero
    /\ ret.swing[1].preco = F(101, 1)
    /\ ret.swing[1].ganho_pct # args.payload.swing[1].ganho_pct
    /\ ret.swing[2] = args.payload.swing[2]
    /\ ret.generated_at = MaxNow

\* entrada.json holds a whole document (or does not exist yet).
WholeOrAbsent(file) == file = Absent \/ Complete(file)

\* The step replaces entrada.json by the whole payload of the worker or of
\* price_stream, as the last step of a write that succeeded.
ReplacedWhole ==
    /\ Complete(files'[ENTRADA_JSON_PATH])
    /\ \/ w_pc = "replace" /\ w_pc' = "finalizado"
          /\ files'[ENTRADA_JSON_PATH].data = w_payload
       \/ p_pc = "replace" /\ p_pc' = "Atualizado"
          /\ files'[ENTRADA_JSON_PATH].data = p_payload

\* C21: entrada.json is only ever replaced atomically: at every moment of
\* every interleaving of the worker's salvar_json, price_stream's write-back
\* and the panel's reads, entrada.json and what the panel read are whole
\* payloads, never partly written ones; entrada.json changes only in the
\* os.replace step of a write that succeeded, to the whole payload of that
\* writer, so a write that failed leaves it as it was.
C21_AtomicReplace ==
    /\ [](WholeOrAbsent(files[ENTRADA_JSON_PATH]) /\ WholeOrAbsent(observed))
    /\ [][files'[ENTRADA_JSON_PATH] # files[ENTRADA_JSON_PATH] => ReplacedWhole]_vars

\* The worker's write failed half-way and left a partial temporary file,
\* price_stream is in the middle of its own write, and the panel holds the
\* whole payload it read before entrada.json was replaced by another one.
C21_Witness ==
    /\ w_pc = "raised"
    /\ files[W_tmp_path].exists /\ ~Complete(files[W_tmp_path])
    /\ p_pc = "dump" /\ files[P_tmp_path].written = 1
    /\ Complete(files[ENTRADA_JSON_PATH])
    /\ Complete(observed) /\ observed # files[ENTRADA_JSON_PATH]

CalledS == op = "classificar_situacao"

\* The price has reached the target: at or above it for LONG, at or below it
\* for SHORT; a missing target is not reached.
Reached(side, preco, alvo) ==
    /\ alvo # None
    /\ \/ SideIs(side, "LONG") /\ FGe(preco, alvo)
       \/ SideIs(side, "SHORT") /\ FLe(preco, alvo)

\* The targets lie in the order calcular_alvos_profissionais gives them for
\* a real ATR: away from the entry, alvo_1 the nearest.
OrderedAlvos(side, a) ==
    /\ a[1] # None /\ a[2] # None /\ a[3] # None
    /\ \/ SideIs(side, "LONG") /\ FLe(a[1], a[2]) /\ FLe(a[2], a[3])
       \/ SideIs(side, "SHORT") /\ FGe(a[1], a[2]) /\ FGe(a[2], a[3])

\* C22: classificar_situacao returns "ABERTA" when the price or alvo_1 is
\* missing or the side is neither LONG nor SHORT; otherwise "ALVO k" for the
\* highest-numbered target the price has reached (>= for LONG, <= for
\* SHORT), "ABERTA" if it has reached none.  With the targets in the order
\* of calcular_alvos_profissionais, "ALVO k" implies that every
\* lower-numbered target has been reached too.
C22_Situacao ==
    CalledS =>
        LET side == args.side
            p == args.preco_atual
            a == <<args.alvo_1, args.alvo_2, args.alvo_3>>
            nome == <<"ALVO 1", "ALVO 2", "ALVO 3">>
            hit == {k \in 1..3 : p # None /\ Reached(side, p, a[k])}
        IN  /\ (p = None \/ a[1] = None \/ ~(SideIs(side, "LONG") \/ SideIs(side, "SHORT")))
                => ret = "ABERTA"
            /\ (p # None /\ a[1] # None)
                => /\ hit = {} => ret = "ABERTA"
                   /\ hit # {} => ret = nome[MaxOf(hit)]
            /\ OrderedAlvos(side, a)
                => \A k \in 1..3 : ret = nome[k] => \A j \in 1..k : j \in hit

\* A SHORT whose price stands on the second target exactly: "ALVO 2", with
\* the first target reached and the third not.
C22_Witness ==
    /\ CalledS
    /\ args.side = "Short"
    /\ <<args.alvo_1, args.alvo_2, args.alvo_3>> =
           calcular_alvos_profissionais("SHORT", F(100, 1), F(2, 1))
    /\ args.preco_atual = args.alvo_2
    /\ ret = "ALVO 2"

CalledP == op = "processar_operacoes"

\* The operation has a pair, an entry price and candles, and nothing in it
\* makes its processing raise.
HasPairPriceCandles(oper) ==
    /\ oper.dict
    /\ oper.par # ""
    /\ oper.entrada # None
    /\ oper.ohlcv.kind = "df"
    /\ oper.entrada # Texto /\ oper.alav # Texto

\* The pairs of the lines, in order.
Pares(linhas) == [i \in DOMAIN linhas |-> linhas[i].par]

\* C23: processar_operacoes always ends by handing a list to salvar_json: the
\* empty list when the manual file is missing, unreadable, not a list or
\* empty; otherwise one line per operation that has a pair, an entry price
\* and candles, in the order of the file, the operations that fail being
\* skipped without ending the loop.
C23_Claim ==
    CalledP =>
        IF args.file.kind # "list" THEN ret.dados = <<>>
        ELSE Pares(ret.dados) = Pares(SelectSeq(args.file.data, HasPairPriceCandles))

\* C24: in analisar_sinal, for every input with price > 0 the recomputed gain
\* is >= 3.0 and the confidence is >= 68, so the filter branch is never taken
\* and the call never returns None.
C24_Claim ==
    (CalledA /\ FGt(Ind.preco, FZero)) =>
        /\ ret.kind = "dict"
        /\ FGe(ret.frame.ganho_pct_real, F(3, 1))
        /\ FGe(ret.frame.assert_pct, F(68, 1))

\* The gain as worker_entrada and analisar_sinal compute it from price and
\* target.
EngineGain(sinal, preco, alvo) ==
    IF sinal = "LONG"
    THEN FMul(FDiv(FSub(alvo, preco), preco), F(100, 1))
    ELSE FMul(FDiv(FSub(preco, alvo), preco), F(100, 1))

\* C26: for LONG or SHORT with positive price and target,
\* recalc_gain_for_signal returns the gain of the gain definition,
\* (target/price - 1)*100 for LONG and (1 - target/price)*100 for SHORT, so
\* an entry that carries the engine's gain for its price keeps its ganho_pct
\* when it is refreshed at that same price.
C26_Claim ==
    (CalledR /\ args.sinal \in {"LONG", "SHORT"}
             /\ FGt(args.preco_atual, FZero) /\ FGt(args.alvo, FZero)) =>
        LET a == args
            ratio == FDiv(a.alvo, a.preco_atual)
        IN  /\ a.sinal = "LONG" => ret = FMul(FSub(ratio, F(1, 1)), F(100, 1))
            /\ a.sinal = "SHORT" => ret = FMul(FSub(F(1, 1), ratio), F(100, 1))
            /\ a.ganho_original = FRound(EngineGain(a.sinal, a.preco_atual, a.alvo), PCT_DECIMALS)
                => FRound(ret, PCT_DECIMALS) = a.ganho_original

\* The entries of a payload, of both lists.
EntriesOf(p) ==
    IF p.kind # "dict" THEN {}
    ELSE {p.swing[i] : i \in DOMAIN p.swing} \cup {p.posicional[i] : i \in DOMAIN p.posicional}

\* The LONG and SHORT entries of entrada.json.
PublishedEntries ==
    {s \in EntriesOf(files[ENTRADA_JSON_PATH].data) : s.sinal \in {"LONG", "SHORT"}}

\* C25 as stated: after any sequence of worker runs and price_stream
\* updates, every LONG or SHORT entry of entrada.json has ganho_pct >= 3.0
\* and assert_pct >= 65.0.
C25_Original ==
    \A s \in PublishedEntries :
        FGe(s.ganho_pct, F(3, 1)) /\ FGe(s.assert_pct, F(65, 1))

\* The step is the os.replace that ends a write of the worker.
WorkerWrote == w_pc = "replace" /\ w_pc' = "finalizado"

\* C25, amended: after any sequence of worker runs and price_stream updates
\* every LONG or SHORT entry of entrada.json has assert_pct >= 65.0; its
\* ganho_pct is >= 3.0 in the payload the worker builds and in the file as a
\* worker run leaves it, whereas an entry price_stream has refreshed carries
\* the gain recomputed from the current price, whatever it is.
C25_Amended ==
    /\ [](\A s \in PublishedEntries : FGe(s.assert_pct, F(65, 1)))
    /\ [](\A s \in EntriesOf(w_payload) :
            s.sinal \in {"LONG", "SHORT"} /\ FGe(s.ganho_pct, F(3, 1))
                                         /\ FGe(s.assert_pct, F(65, 1)))
    /\ [][WorkerWrote =>
            \A s \in EntriesOf(files'[ENTRADA_JSON_PATH].data) : FGe(s.ganho_pct, F(3, 1))]_vars
    /\ [](\A s \in PublishedEntries :
            \/ FGe(s.ganho_pct, F(3, 1))
            \/ s.ganho_pct = FRound(recalc_gain_for_signal(s.preco, s.alvo, s.sinal, FZero),
                                    PCT_DECIMALS))

\* entrada.json after a worker run and a price_stream update: a LONG entry
\* with target 103 stands at price 101, its confidence as published, its gain
\* recomputed to 1.98.
C25_Witness ==
    /\ p_pc = "Atualizado"
    /\ \E s \in PublishedEntries :
        /\ s.sinal = "LONG"
        /\ s.preco = F(101, 1)
        /\ s.alvo = F(103, 1)
        /\ s.ganho_pct = F(198, 100)
        /\ FGe(s.assert_pct, F(65, 1))

====
